---- MODULE Spec2Model ----
(***************************************************************************)
(* ContextAware (the cross-file context resolver of dts-lsp): the fold of  *)
(* the cached parses of fileMap into one runtime tree of Nodes and         *)
(* Properties, with the context issues it collects.                        *)
(*                                                                         *)
(* Strings are sequences of atoms ("a@20" is <<"a","@","20">>, "&l" is     *)
(* <<"&","l">>), so that startsWith('&'), slice(1) and NodeName.toString() *)
(* are computed, not assumed.  A path is a sequence of such strings.       *)
(*                                                                         *)
(* A parsed file is the pre-order table of its processable AST elements    *)
(* (root nodes, child nodes, ref nodes, properties, /delete-node/ and      *)
(* /delete-property/ statements); element i of file u is the AST object    *)
(* <<u, i>>, and `parent` is the index of its parentNode (0: the root      *)
(* document).                                                              *)
(***************************************************************************)
EXTENDS Integers, Sequences, FiniteSets, TLC

VARIABLES
    fileMap,    \* ContextAware.fileMap: the URIs, in fold order
    astMap,     \* resultCache.astMap: URI -> parsed file
    heap,       \* every Node object created so far; heap[1] is rootNode
    issues,     \* ContextAware._issues
    agenda,     \* pending processChild(element, runtimeNodeParent) calls, innermost first
    pc,         \* "start" | "fold" | "done" | "threw"
    nProps,     \* number of Property objects created so far
    firstTree,  \* history: the heap when the first file of fileMap was folded
    propDefs,   \* history: per <<node, property name>>, the definitions since the last delete
    binding,    \* the PropertyNodeType whose validate is called
    vnode,      \* the Node it is called with
    verdict,    \* what validate came to
    intNode,    \* the node that carries interrupts-extended, and the nodes its values refer to
    walk,       \* the additional check of interrupts-extended: position, issues, progress
    tokens,     \* the tokens of a source file
    parse       \* the parser: position in text, open declarations, issues

ctxVars == <<fileMap, astMap, heap, issues, agenda, pc, nProps, firstTree, propDefs>>
valVars == <<binding, vnode, verdict>>
intVars == <<intNode, walk>>
parseVars == <<tokens, parse>>
vars == <<ctxVars, valVars, intVars, parseVars>>

\* A component that takes no part in the run at hand
Idle == <<>>

-----------------------------------------------------------------------------
(* Bounds of the explored inputs *)

MaxElems == 3
MaxFuel == 4
MaxValues == 2
MaxCells == 4
MaxDecls == 2
MaxSteps == 8

-----------------------------------------------------------------------------
(* Sequences *)

RECURSIVE SortedSeq(_)
SortedSeq(S) ==
    IF S = {} THEN <<>>
    ELSE LET m == CHOOSE x \in S : \A y \in S : x <= y
         IN <<m>> \o SortedSeq(S \ {m})

RECURSIVE FlatMap(_, _)
FlatMap(F(_), s) ==
    IF s = <<>> THEN <<>> ELSE F(Head(s)) \o FlatMap(F, Tail(s))

MapSeq(F(_), s) == [i \in 1..Len(s) |-> F(s[i])]

Range(s) == {s[i] : i \in 1..Len(s)}

\* The least member of a set of positions, 0 when it is empty
MinOrZero(S) == IF S = {} THEN 0 ELSE CHOOSE i \in S : \A j \in S : i <= j

\* Array.prototype.findIndex, 1-based; 0 when no element satisfies P
FindIndex(P(_), s) == MinOrZero({i \in 1..Len(s) : P(s[i])})

\* s[i], 0 when i is 0
AtOrZero(s, i) == IF i = 0 THEN 0 ELSE s[i]

\* Array.prototype.splice(index, 1)
RemoveAt(s, i) == SubSeq(s, 1, i - 1) \o SubSeq(s, i + 1, Len(s))

\* splice(index, 1) when index is not -1 (here 0)
RemoveFound(s, i) == IF i = 0 THEN s ELSE RemoveAt(s, i)

-----------------------------------------------------------------------------
(* AST *)

Slash == <<"/">>
Amp == "&"
NoString == <<>>

\* NodeName.toString(): the name, followed by `@` and the address when there is one
NodeNameToString(e) ==
    IF e.addr = NoString THEN e.name ELSE e.name \o <<"@">> \o e.addr

\* NodeName.value
NodeNameValue(e) == e.name

IsBaseNode(e) == e.kind \in {"root", "child", "ref"}

\* element.children restricted to the elements processChild dispatches on
ChildrenOf(file, i) ==
    SortedSeq({j \in 1..Len(file) : file[j].parent = i})

\* DtcRefNode.pathName: `&label` of the label reference
RefPathName(e) == <<Amp>> \o e.ref

None == [some |-> FALSE, val |-> <<>>]
Some(v) == [some |-> TRUE, val |-> v]

\* [...parentPath, pathName], undefined when the parent has no path
PathAppend(pp, name) == IF pp.some THEN Some(Append(pp.val, name)) ELSE None

\* DtcBaseNode.path: the path names from the outermost node block down
RECURSIVE ElemPath(_, _)
ElemPath(file, i) ==
    LET e == file[i] IN
    CASE e.kind = "root" -> Some(<<Slash>>)
      [] e.kind = "ref" ->
            IF e.ref = NoString THEN None ELSE Some(<<RefPathName(e)>>)
      [] e.kind = "child" ->
            IF e.name = NoString \/ e.parent = 0 THEN None
            ELSE PathAppend(ElemPath(file, e.parent), NodeNameToString(e))
      [] OTHER -> None

\* A reference to an AST object: element <<uri, el>> itself ("self"), its
\* NodeName ("name"), its PropertyName ("propertyName"), the NodeName or
\* LabelRef of a /delete-node/ ("nodeNameOrRef"), its k-th LabelAssign
\* ("label"), or the k-th LabelAssign inside a property's values ("vlabel")
AstRef(uri, el, part, k) == [uri |-> uri, el |-> el, part |-> part, k |-> k]
Self(ref) == AstRef(ref[1], ref[2], "self", 0)
Elem(ref) == astMap[ref[1]][ref[2]]

\* LabelAssign.label: the label's text
LabelText(l) ==
    IF l.part = "label" THEN astMap[l.uri][l.el].labels[l.k]
    ELSE astMap[l.uri][l.el].vlabels[l.k]

\* LabelAssign.parentNode is the element that carries the label; a label
\* inside a property's values belongs to the value, which is no node
LabelParentKind(l) ==
    IF l.part = "label" THEN astMap[l.uri][l.el].kind ELSE "value"

\* element.labels
ElemLabels(ref) ==
    [k \in 1..Len(Elem(ref).labels) |-> AstRef(ref[1], ref[2], "label", k)]

-----------------------------------------------------------------------------
(* Runtime tree: context/node.ts (Node) and context/property.ts (Property) *)

RootNode == 1

NewNodeRec(name, parent) ==
    [name |-> name, parent |-> parent, nodes |-> <<>>, properties |-> <<>>,
     definitons |-> <<>>, referancesBy |-> <<>>]

\* new Node(name, parent): the constructor adds the node to its parent's children
NewNode(h, name, parent) ==
    IF parent = 0 THEN Append(h, NewNodeRec(name, parent))
    ELSE [Append(h, NewNodeRec(name, parent)) EXCEPT ![parent].nodes = Append(@, Len(h) + 1)]

\* Node.hasNode(name)
HasNode(h, n, name) == \E i \in 1..Len(h[n].nodes) : h[h[n].nodes[i]].name = name

\* Node.getNode(name): the first child of that name, 0 when there is none
GetNode(h, n, name) ==
    AtOrZero(h[n].nodes, FindIndex(LAMBDA c : h[c].name = name, h[n].nodes))

\* Node.deleteNode(name, by): detaches the first child of that name
DeleteNodeFrom(h, n, name) ==
    [h EXCEPT ![n].nodes =
        RemoveFound(@, FindIndex(LAMBDA c : h[c].name = name, h[n].nodes))]

\* Node.getChild(path): the node at `path`, which starts with this node's own
\* name; 0 when there is none
RECURSIVE GetChildFrom(_, _, _)
GetChildFrom(h, n, path) ==
    IF n = 0 \/ path = <<>> THEN 0
    ELSE IF path[1] # h[n].name THEN 0
    ELSE IF Len(path) = 1 THEN n
    ELSE GetChildFrom(h, GetNode(h, n, path[2]), Tail(path))

GetChild(h, path) == GetChildFrom(h, RootNode, path)

\* Node.path
RECURSIVE NodePath(_, _)
NodePath(h, n) ==
    IF h[n].parent = 0 THEN <<h[n].name>>
    ELSE Append(NodePath(h, h[n].parent), h[n].name)

\* Property.name
PropertyName(pr) == Elem(pr.ast).name

\* Node.hasProperty(name)
HasProperty(h, n, name) ==
    \E i \in 1..Len(h[n].properties) : PropertyName(h[n].properties[i]) = name

\* Node.getProperty(name), as the index in properties (0: none)
PropertyIndex(h, n, name) ==
    FindIndex(LAMBDA pr : PropertyName(pr) = name, h[n].properties)

\* Node.addProperty(property): a property of the same name is taken out and
\* becomes what the new one replaces; the new one is appended
AddPropertyAt(h, n, ast, id, i) ==
    IF i = 0
    THEN [h EXCEPT ![n].properties =
            Append(@, [id |-> id, ast |-> ast, replaces |-> <<>>])]
    ELSE [h EXCEPT ![n].properties =
            Append(RemoveAt(@, i),
                   [id |-> id, ast |-> ast, replaces |-> <<h[n].properties[i]>>])]

AddProperty(h, n, ast, id) ==
    AddPropertyAt(h, n, ast, id, PropertyIndex(h, n, Elem(ast).name))

\* Node.deleteProperty(name, by)
DeletePropertyFrom(h, n, name) ==
    [h EXCEPT ![n].properties = RemoveFound(@, PropertyIndex(h, n, name))]

\* Node.labels: the labels of the ref nodes merged into the node, then those
\* of its child-node definitions
NodeLabels(h, n) ==
    FlatMap(ElemLabels, h[n].referancesBy)
    \o FlatMap(LAMBDA d : IF Elem(d).kind = "child"
                          THEN ElemLabels(d) ELSE <<>>,
               h[n].definitons)

\* Property.labels: every LabelAssign below the property's AST
PropertyLabels(pr) ==
    ElemLabels(pr.ast)
    \o [k \in 1..Len(Elem(pr.ast).vlabels) |-> AstRef(pr.ast[1], pr.ast[2], "vlabel", k)]

NoOwner == [kind |-> "null", id |-> 0]
NodeOwner(n) == [kind |-> "Node", id |-> n]
PropertyOwner(pr) == [kind |-> "Property", id |-> pr.id]

\* Property.labelsMapped
PropertyLabelsMapped(pr) ==
    MapSeq(LAMBDA l : [label |-> l,
                       owner |-> IF \E ll \in Range(ElemLabels(pr.ast)) : ll = l
                                 THEN PropertyOwner(pr) ELSE NoOwner],
           PropertyLabels(pr))

\* Node.labelsMapped
NodeLabelsMapped(h, n) ==
    MapSeq(LAMBDA l : [label |-> l, owner |-> NodeOwner(n)], NodeLabels(h, n))

\* Node.allDescendantsLabels: own labels, then the properties', then the children's
RECURSIVE AllDescendantsLabels(_, _)
AllDescendantsLabels(h, n) ==
    NodeLabels(h, n)
    \o FlatMap(PropertyLabels, h[n].properties)
    \o FlatMap(LAMBDA c : AllDescendantsLabels(h, c), h[n].nodes)

\* Node.allDescendantsLabelsMapped
RECURSIVE AllDescendantsLabelsMapped(_, _)
AllDescendantsLabelsMapped(h, n) ==
    NodeLabelsMapped(h, n)
    \o FlatMap(PropertyLabelsMapped, h[n].properties)
    \o FlatMap(LAMBDA c : AllDescendantsLabelsMapped(h, c), h[n].nodes)

-----------------------------------------------------------------------------
(* ContextAware *)

\* genIssue, with its defaults: severity Error, no links, no tags, no template strings
GenIssue(issue, slxBase, severity, linkedTo, templateStrings) ==
    [issues |-> <<issue>>, astElement |-> slxBase, severity |-> severity,
     linkedTo |-> linkedTo, tags |-> <<>>, templateStrings |-> templateStrings]

GenError(issue, slxBase) == GenIssue(issue, slxBase, "Error", <<>>, <<>>)

\* checkNodeUniqueNames: the walk over element.children, from child `cs[1]` on,
\* with the names seen so far
RECURSIVE CheckNames(_, _, _, _)
CheckNames(uri, cs, names, acc) ==
    IF cs = <<>> THEN acc
    ELSE LET c == cs[1]
             e == astMap[uri][c]
         IN CASE e.kind = "child" /\ e.name # NoString ->
                    CheckNames(uri, Tail(cs), names \cup {NodeNameToString(e)},
                        IF e.name \in names
                        THEN Append(acc, GenError("DUPLICATE_NODE_NAME",
                                                  AstRef(uri, c, "name", 0)))
                        ELSE acc)
              [] e.kind = "delnode" /\ e.ref = NoString /\ e.name # NoString ->
                    IF NodeNameToString(e) \notin names
                    THEN CheckNames(uri, Tail(cs), names,
                            Append(acc, GenError("NODE_DOES_NOT_EXIST",
                                                 AstRef(uri, c, "nodeNameOrRef", 0))))
                    ELSE CheckNames(uri, Tail(cs), names \ {NodeNameToString(e)}, acc)
              [] OTHER -> CheckNames(uri, Tail(cs), names, acc)

\* checkNodeUniqueNames(element): the issues it pushes
checkNodeUniqueNames(uri, el) ==
    CheckNames(uri, ChildrenOf(astMap[uri], el), {}, <<>>)

\* What resolvePath comes to: a path, undefined, a TypeError (path[0] of an
\* empty path is undefined), or a recursion that never returns
Resolved(path) == [tag |-> "path", path |-> path]
Unresolved == [tag |-> "undefined", path |-> <<>>]
TypeError == [tag |-> "TypeError", path |-> <<>>]
Diverges == [tag |-> "diverges", path |-> <<>>]

StartsWithAmp(seg) == seg # <<>> /\ Head(seg) = Amp

\* The runtime node `n` (0: none) carries a label whose text is `text`
CarriesLabel(h, n, text) ==
    n # 0 /\ \E ll \in Range(NodeLabels(h, n)) : LabelText(ll) = text

\* rootNode.getChild(path) for an optional path
GetChildOpt(h, path) == IF path.some THEN GetChild(h, path.val) ELSE 0

\* A variant of IsChildNodeParent that wants the DtcChildNode's own label to
\* be `text`
IsChildNodeParentOwnLabel(h, ll, text) ==
    /\ LabelParentKind(ll) = "child"
    /\ LabelText(ll) = text
    /\ GetChildOpt(h, ElemPath(astMap[ll.uri], ll.el)) # 0

\* resolvePath, rule 1: the label of a DtcChildNode whose path leads to a
\* runtime node that carries label `text`
IsChildNodeParent(h, ll, text) ==
    /\ LabelParentKind(ll) = "child"
    /\ CarriesLabel(h, GetChildOpt(h, ElemPath(astMap[ll.uri], ll.el)), text)

\* resolvePath, rule 2: the label of a DtcRefNode whose label reference is `text`
IsRefNodeParent(ll, text) ==
    /\ LabelParentKind(ll) = "ref"
    /\ astMap[ll.uri][ll.el].ref # NoString
    /\ astMap[ll.uri][ll.el].ref = text

\* resolvePath(path); `fuel` is the recursion depth left
RECURSIVE resolvePathRec(_, _, _)
RECURSIVE resolvePathFound(_, _, _, _, _, _)

\* A variant of resolvePathFound that tries the ref-node rule before the
\* child-node rule
resolvePathFoundRefFirst(h, path, fuel, allLabels, i, j) ==
    IF j # 0
    THEN resolvePathRec(h,
            <<RefPathName(astMap[allLabels[j].uri][allLabels[j].el])>>,
            fuel - 1)
    ELSE IF i # 0
    THEN resolvePathRec(h,
            ElemPath(astMap[allLabels[i].uri], allLabels[i].el).val \o Tail(path),
            fuel - 1)
    ELSE Unresolved

\* resolvePath from line 286 on: i is the index in allLabels of the label of
\* childNodeParent, j that of the label of refNodeParent (0: none found)
resolvePathFound(h, path, fuel, allLabels, i, j) ==
    IF i # 0
    THEN resolvePathRec(h,
            ElemPath(astMap[allLabels[i].uri], allLabels[i].el).val \o Tail(path),
            fuel - 1)
    ELSE IF j # 0
    THEN resolvePathRec(h,
            <<RefPathName(astMap[allLabels[j].uri][allLabels[j].el])>>,
            fuel - 1)
    ELSE Unresolved

resolvePathIn(h, path, fuel, allLabels) ==
    resolvePathFound(h, path, fuel, allLabels,
        FindIndex(LAMBDA ll : IsChildNodeParent(h, ll, Tail(path[1])), allLabels),
        FindIndex(LAMBDA ll : IsRefNodeParent(ll, Tail(path[1])), allLabels))

resolvePathRec(h, path, fuel) ==
    IF fuel = 0 THEN Diverges
    ELSE IF path = <<>> THEN TypeError
    ELSE IF ~StartsWithAmp(path[1]) THEN Resolved(path)
    ELSE resolvePathIn(h, path, fuel, AllDescendantsLabels(h, RootNode))

resolvePath(h, path) == resolvePathRec(h, path, MaxFuel)

Raises(r) == r.tag \in {"TypeError", "diverges"}

\* A pending call processChild(element, runtimeNodeParent): element <<uri, el>>,
\* folded as the pass-th file of fileMap; parent 0 stands for the
\* `new Node('')` that processDtcRefNode makes for each child of a ref node
\* without a runtime node
Frame(uri, el, parent, pass) ==
    [uri |-> uri, el |-> el, parent |-> parent, pass |-> pass]

\* element.children.forEach((child) => this.processChild(child, parent))
ChildFrames(f, parent) ==
    MapSeq(LAMBDA c : Frame(f.uri, c, parent, f.pass),
           ChildrenOf(astMap[f.uri], f.el))

\* The runtimeNodeParent a call arrives with: the `new Node('')` is created now
ArriveHeap(h, f) == IF f.parent = 0 THEN NewNode(h, NoString, 0) ELSE h
\* A variant of ArriveNode that hands rootNode to the children of a ref node
\* without a runtime node
ArriveAtRoot(h, f) == IF f.parent = 0 THEN RootNode ELSE f.parent
ArriveNode(h, f) == IF f.parent = 0 THEN Len(h) + 1 ELSE f.parent

\* What a handler did: the heap it leaves, the issues it pushed, the calls it
\* makes for the children, and whether it raised
Outcome(h, out, push, raised) ==
    [heap |-> h, out |-> out, push |-> push, raised |-> raised]

processDtcRootNode(h, f) ==
    Outcome(h, <<>>, ChildFrames(f, RootNode), FALSE)

\* processDtcChildNode from line 188 on: runtimeNode is the node found (0: none)
processDtcChildNodeAt(h, f, runtimeNodeParent, runtimeNode) ==
    IF runtimeNode # 0
    THEN Outcome([h EXCEPT ![runtimeNode].definitons = Append(@, <<f.uri, f.el>>)],
                 <<>>, ChildFrames(f, runtimeNode), FALSE)
    ELSE Outcome([NewNode(h, NodeNameToString(astMap[f.uri][f.el]), runtimeNodeParent)
                    EXCEPT ![Len(h) + 1].definitons = Append(@, <<f.uri, f.el>>)],
                 <<>>, ChildFrames(f, Len(h) + 1), FALSE)

\* rootNode.getChild(resolvedPath) when there is a resolved path
GetChildResolved(h, resolvedPath) ==
    IF resolvedPath.tag = "path" THEN GetChild(h, resolvedPath.path) ELSE 0

processDtcChildNodeResolved(h, f, runtimeNodeParent, resolvedPath) ==
    IF Raises(resolvedPath) THEN Outcome(h, <<>>, <<>>, TRUE)
    ELSE processDtcChildNodeAt(h, f, runtimeNodeParent, GetChildResolved(h, resolvedPath))

\* element.path ? this.resolvePath(element.path) : undefined
resolveOptPath(h, path) ==
    IF path.some THEN resolvePath(h, path.val) ELSE Unresolved

processDtcChildNode(h, f, runtimeNodeParent) ==
    IF astMap[f.uri][f.el].name # NoString
    THEN processDtcChildNodeResolved(h, f, runtimeNodeParent,
            resolveOptPath(h, ElemPath(astMap[f.uri], f.el)))
    ELSE Outcome(h, <<>>, ChildFrames(f, runtimeNodeParent), FALSE)

\* processDtcRefNode, lines 209-211: runtimeNode is the node found (0: none)
processDtcRefNodeAt(h, f, runtimeNode) ==
    Outcome(IF runtimeNode = 0 THEN h
            ELSE [h EXCEPT ![runtimeNode].referancesBy = Append(@, <<f.uri, f.el>>)],
            <<>>, ChildFrames(f, runtimeNode), FALSE)

\* A variant of processDtcRefNodeResolved that keeps silent about a label it
\* cannot resolve
processDtcRefNodeSilent(h, f, resolvedPath) ==
    IF Raises(resolvedPath) THEN Outcome(h, <<>>, <<>>, TRUE)
    ELSE IF resolvedPath.tag # "path"
    THEN Outcome(h, <<>>, ChildFrames(f, 0), FALSE)
    ELSE processDtcRefNodeAt(h, f, GetChild(h, resolvedPath.path))

processDtcRefNodeResolved(h, f, resolvedPath) ==
    IF Raises(resolvedPath) THEN Outcome(h, <<>>, <<>>, TRUE)
    ELSE IF resolvedPath.tag # "path"
    THEN Outcome(h,
            <<GenError("UNABLE_TO_RESOLVE_CHILD_NODE", Self(<<f.uri, f.el>>))>>,
            ChildFrames(f, 0), FALSE)
    ELSE processDtcRefNodeAt(h, f, GetChild(h, resolvedPath.path))

processDtcRefNode(h, f) ==
    IF astMap[f.uri][f.el].ref # NoString
    THEN processDtcRefNodeResolved(h, f,
            resolvePath(h, <<RefPathName(astMap[f.uri][f.el])>>))
    ELSE Outcome(h, <<>>, ChildFrames(f, 0), FALSE)

\* processDtcBaseNode: checkNodeUniqueNames first, then the node's own handler
WithIssuesFirst(out, r) == [r EXCEPT !.out = out \o @]

processDtcBaseNode(h, f, runtimeNodeParent) ==
    WithIssuesFirst(checkNodeUniqueNames(f.uri, f.el),
        CASE astMap[f.uri][f.el].kind = "root" -> processDtcRootNode(h, f)
          [] astMap[f.uri][f.el].kind = "child" ->
                processDtcChildNode(h, f, runtimeNodeParent)
          [] OTHER -> processDtcRefNode(h, f))

processDtcProperty(h, f, runtimeNodeParent, id) ==
    Outcome(IF astMap[f.uri][f.el].name # NoString
            THEN AddProperty(h, runtimeNodeParent, <<f.uri, f.el>>, id) ELSE h,
            <<>>, ChildFrames(f, runtimeNodeParent), FALSE)

\* processDeleteNode, lines 248-249: runtimeNode is the node found (0: none)
processDeleteNodeAt(h, f, runtimeNodeParent, runtimeNode) ==
    Outcome(IF runtimeNode # 0 /\ h[runtimeNode].parent # 0
            THEN DeleteNodeFrom(h, h[runtimeNode].parent, h[runtimeNode].name)
            ELSE h,
            <<>>, ChildFrames(f, runtimeNodeParent), FALSE)

processDeleteNodeResolved(h, f, runtimeNodeParent, resolvedPath) ==
    IF Raises(resolvedPath) THEN Outcome(h, <<>>, <<>>, TRUE)
    ELSE IF resolvedPath.tag # "path"
    THEN Outcome(h,
            <<GenError("UNABLE_TO_RESOLVE_CHILD_NODE", Self(<<f.uri, f.el>>))>>,
            ChildFrames(f, runtimeNodeParent), FALSE)
    ELSE processDeleteNodeAt(h, f, runtimeNodeParent, GetChild(h, resolvedPath.path))

\* processDeleteNode, lines 229-238: the statement names the node
processDeleteNodeByName(h, f, runtimeNodeParent, value) ==
    IF astMap[f.uri][f.el].parent # 0
    THEN IF ~HasNode(h, runtimeNodeParent, value)
         THEN Outcome(h,
                 <<GenError("NODE_DOES_NOT_EXIST",
                            AstRef(f.uri, f.el, "nodeNameOrRef", 0))>>,
                 ChildFrames(f, runtimeNodeParent), FALSE)
         ELSE Outcome(DeleteNodeFrom(h, runtimeNodeParent, value),
                      <<>>, ChildFrames(f, runtimeNodeParent), FALSE)
    ELSE Outcome(h, <<>>, ChildFrames(f, runtimeNodeParent), FALSE)

processDeleteNode(h, f, runtimeNodeParent) ==
    IF astMap[f.uri][f.el].ref = NoString /\ astMap[f.uri][f.el].name # NoString
    THEN processDeleteNodeByName(h, f, runtimeNodeParent,
                                 NodeNameValue(astMap[f.uri][f.el]))
    ELSE IF astMap[f.uri][f.el].ref # NoString
    THEN processDeleteNodeResolved(h, f, runtimeNodeParent,
            resolvePath(h, <<(<<Amp>> \o astMap[f.uri][f.el].ref)>>))
    ELSE Outcome(h, <<>>, ChildFrames(f, runtimeNodeParent), FALSE)

processDeletePropertyNamed(h, f, runtimeNodeParent, name) ==
    IF name # NoString /\ ~HasProperty(h, runtimeNodeParent, name)
    THEN Outcome(h,
            <<GenError("PROPERTY_DOES_NOT_EXIST",
                       AstRef(f.uri, f.el, "propertyName", 0))>>,
            ChildFrames(f, runtimeNodeParent), FALSE)
    ELSE IF name # NoString
    THEN Outcome(DeletePropertyFrom(h, runtimeNodeParent, name),
                 <<>>, ChildFrames(f, runtimeNodeParent), FALSE)
    ELSE Outcome(h, <<>>, ChildFrames(f, runtimeNodeParent), FALSE)

\* A variant of processDeleteProperty that reports a missing property and
\* never removes one
processDeletePropertyNoRemove(h, f, runtimeNodeParent) ==
    IF astMap[f.uri][f.el].name # NoString
       /\ ~HasProperty(h, runtimeNodeParent, astMap[f.uri][f.el].name)
    THEN Outcome(h,
            <<GenError("PROPERTY_DOES_NOT_EXIST",
                       AstRef(f.uri, f.el, "propertyName", 0))>>,
            ChildFrames(f, runtimeNodeParent), FALSE)
    ELSE Outcome(h, <<>>, ChildFrames(f, runtimeNodeParent), FALSE)

processDeleteProperty(h, f, runtimeNodeParent) ==
    processDeletePropertyNamed(h, f, runtimeNodeParent, astMap[f.uri][f.el].name)

\* The keys of the Map lablesUsed, in insertion order
RECURSIVE LabelTexts(_, _)
LabelTexts(items, seen) ==
    IF items = <<>> THEN <<>>
    ELSE IF LabelText(items[1].label) \in seen THEN LabelTexts(Tail(items), seen)
    ELSE <<LabelText(items[1].label)>>
         \o LabelTexts(Tail(items), seen \cup {LabelText(items[1].label)})

\* allSameOwner of reportLabelIssues; k is the index of firstLabeledNode (0: none)
AllSameOwner(otherOwners, k) ==
    k # 0 /\ \A i \in 1..Len(otherOwners) : otherOwners[i].owner = otherOwners[k].owner

LabelInUse(otherOwners, last) ==
    GenIssue("LABEL_ALREADY_IN_USE", last, "Error",
             MapSeq(LAMBDA o : o.label, SubSeq(otherOwners, 1, Len(otherOwners) - 1)),
             <<LabelText(last)>>)

LabelIssueAt(otherOwners, k) ==
    IF ~AllSameOwner(otherOwners, k) \/ k = 0
    THEN <<LabelInUse(otherOwners, otherOwners[Len(otherOwners)].label)>>
    ELSE <<>>

\* The issue reportLabelIssues pushes for one entry of lablesUsed, if any
LabelIssue(otherOwners) ==
    IF Len(otherOwners) > 1
    THEN LabelIssueAt(otherOwners,
                      FindIndex(LAMBDA o : o.owner.kind = "Node", otherOwners))
    ELSE <<>>

reportLabelIssuesOf(items) ==
    FlatMap(LAMBDA t : LabelIssue(SelectSeq(items, LAMBDA it : LabelText(it.label) = t)),
            LabelTexts(items, {}))

\* reportLabelIssues: the issues it pushes
reportLabelIssues(h) == reportLabelIssuesOf(AllDescendantsLabelsMapped(h, RootNode))

\* A variant of replacedIssues that lists the newest replaced definition first
RECURSIVE replacedIssuesNewestFirst(_)
replacedIssuesNewestFirst(pr) ==
    IF pr.replaces = <<>> THEN <<>>
    ELSE <<[issues |-> <<"DUPLICATE_PROPERTY_NAME">>,
            severity |-> "Hint",
            astElement |-> Self(pr.replaces[1].ast),
            linkedTo |-> <<Self(pr.ast)>>,
            tags |-> <<"Unnecessary">>,
            templateStrings |-> <<PropertyName(pr)>>]>>
         \o replacedIssuesNewestFirst(pr.replaces[1])

\* Property.replacedIssues
RECURSIVE replacedIssues(_)
replacedIssues(pr) ==
    IF pr.replaces = <<>> THEN <<>>
    ELSE replacedIssues(pr.replaces[1])
         \o <<[issues |-> <<"DUPLICATE_PROPERTY_NAME">>,
               severity |-> "Hint",
               astElement |-> Self(pr.replaces[1].ast),
               linkedTo |-> <<Self(pr.ast)>>,
               tags |-> <<"Unnecessary">>,
               templateStrings |-> <<PropertyName(pr)>>]>>

\* Property.issues
PropertyIssues(pr) == replacedIssues(pr)

-----------------------------------------------------------------------------
(* Inputs: the parsed files explored *)

Element(kind, name, addr, ref, labels, vlabels) ==
    [kind |-> kind, parent |-> 0, name |-> name, addr |-> addr, ref |-> ref,
     labels |-> labels, vlabels |-> vlabels]

DtcRootNode == Element("root", NoString, NoString, NoString, <<>>, <<>>)
DtcChildNode(labels, name, addr) == Element("child", name, addr, NoString, labels, <<>>)
DtcRefNode(labels, ref) == Element("ref", NoString, NoString, ref, labels, <<>>)
DtcProperty(labels, name, vlabels) == Element("prop", name, NoString, NoString, labels, vlabels)
DeleteNodeName(name, addr) == Element("delnode", name, addr, NoString, <<>>, <<>>)
DeleteNodeRef(ref) == Element("delnode", NoString, NoString, ref, <<>>, <<>>)
DeleteProperty(name) == Element("delprop", name, NoString, NoString, <<>>, <<>>)

RECURSIVE Ancestors(_, _)
Ancestors(file, i) ==
    IF i = 0 THEN {} ELSE {i} \cup Ancestors(file, file[i].parent)

\* The node blocks still open after the last element of `file`
OpenBlocks(file) ==
    IF file = <<>> THEN {}
    ELSE {i \in Ancestors(file, Len(file)) : IsBaseNode(file[i])}

\* `file` with one more element: a top-level declaration, or a statement of
\* an open node block
Extend(top, inner, file) ==
    {Append(file, e) : e \in top}
    \cup {Append(file, [e EXCEPT !.parent = b]) : e \in inner, b \in OpenBlocks(file)}

RECURSIVE FilesOfLen(_, _, _)
FilesOfLen(top, inner, n) ==
    IF n = 0 THEN {<<>>}
    ELSE UNION {Extend(top, inner, file) : file \in FilesOfLen(top, inner, n - 1)}

Files(top, inner, max) == UNION {FilesOfLen(top, inner, n) : n \in 1..max}

a == <<"a">>
b == <<"b">>
l == <<"l">>
m == <<"m">>
p == <<"p">>
q == <<"q">>

\* The statements of the main exploration
TopMain == {DtcRootNode, DtcRefNode(<<>>, l), DtcRefNode(<<m>>, l), DeleteNodeRef(l)}
InnerMain == {DtcChildNode(<<>>, a, NoString), DtcChildNode(<<l>>, a, NoString),
              DtcChildNode(<<l>>, b, NoString), DtcProperty(<<>>, p, <<>>),
              DtcProperty(<<>>, q, <<>>),
              DeleteNodeName(a, NoString), DeleteProperty(p)}

\* Node names with and without a unit address
TopNames == {DtcRootNode, DtcRefNode(<<>>, l)}
InnerNames == {DtcChildNode(<<>>, a, NoString), DtcChildNode(<<>>, a, <<"20">>),
               DtcChildNode(<<l>>, b, NoString), DtcProperty(<<>>, p, <<>>),
               DeleteNodeName(b, NoString), DeleteProperty(p)}

\* Labels repeated on one element and across elements
TopLabels == {DtcRootNode, DtcRefNode(<<m>>, l)}
InnerLabels == {DtcChildNode(<<l>>, a, NoString), DtcChildNode(<<l, l>>, b, NoString),
                DtcProperty(<<l>>, p, <<>>), DtcProperty(<<l, l>>, q, <<>>),
                DeleteNodeName(a, NoString), DeleteProperty(p)}

\* An earlier file: `/ { p; l: a {}; };`
BaseFile ==
    <<DtcRootNode,
      [DtcProperty(<<>>, p, <<>>) EXCEPT !.parent = 1],
      [DtcChildNode(<<l>>, a, NoString) EXCEPT !.parent = 1]>>

\* The orders of files folded: one file, the same file twice, a file after
\* an earlier one, and a file list with a URI that has no parse
OneFile == {<<"f">>}
FileMaps == {<<"f">>, <<"f", "f">>, <<"g", "f">>, <<"f", "h">>}

-----------------------------------------------------------------------------
(* The state machine *)

InitWith(files, fileMaps) ==
    /\ fileMap \in fileMaps
    /\ astMap \in {[u \in {"f", "g"} |-> IF u = "f" THEN file ELSE BaseFile] : file \in files}
    /\ heap = <<NewNodeRec(Slash, 0)>>
    /\ issues = <<>>
    /\ agenda = <<>>
    /\ pc = "start"
    /\ nProps = 0
    /\ firstTree = <<>>
    /\ propDefs = <<>>
    /\ binding = Idle /\ vnode = Idle /\ verdict = Idle
    /\ intNode = Idle /\ walk = Idle
    /\ tokens = Idle /\ parse = Idle

Init == InitWith(Files(TopMain, InnerMain, MaxElems), FileMaps)

\* process(): no file is folded unless every URI has a parse; the calls
\* processRoot makes for the top-level declarations of each file, in order
RootFrames(fm, am, i) ==
    IF fm[i] \in DOMAIN am
    THEN MapSeq(LAMBDA c : Frame(fm[i], c, RootNode, i), ChildrenOf(am[fm[i]], 0))
    ELSE <<>>

\* A variant of process that folds the files that have a parse and skips the
\* others
processParsedOnly(fm, am) ==
    FlatMap(LAMBDA i : RootFrames(fm, am, i), [i \in 1..Len(fm) |-> i])

\* process(): the calls of processChild it comes to, for the files fm and
\* the cached parses am
process(fm, am) ==
    IF \E i \in 1..Len(fm) : fm[i] \notin DOMAIN am THEN <<>>
    ELSE FlatMap(LAMBDA i : RootFrames(fm, am, i), [i \in 1..Len(fm) |-> i])

Process ==
    /\ pc = "start"
    /\ pc' = "fold"
    /\ agenda' = process(fileMap, astMap)
    /\ UNCHANGED <<valVars, intVars, parseVars, fileMap, astMap, heap, issues, nProps, firstTree, propDefs>>

Folding(kinds) ==
    /\ pc = "fold"
    /\ agenda # <<>>
    /\ astMap[Head(agenda).uri][Head(agenda).el].kind \in kinds

\* The state a handler's outcome leaves
Leave(r) ==
    IF r.raised
    THEN /\ pc' = "threw"
         /\ UNCHANGED <<heap, issues, agenda, firstTree>>
    ELSE /\ pc' = pc
         /\ heap' = r.heap
         /\ issues' = issues \o r.out
         /\ agenda' = r.push \o Tail(agenda)
         /\ firstTree' =
                IF Head(agenda).pass = 1
                   /\ (agenda' = <<>> \/ Head(agenda').pass # 1)
                THEN heap' ELSE firstTree

Get(map, k) == IF k \in DOMAIN map THEN map[k] ELSE <<>>
Put(map, k, v) == [x \in DOMAIN map \cup {k} |-> IF x = k THEN v ELSE map[x]]

ProcessDtcRootNode ==
    /\ Folding({"root"})
    /\ Leave(processDtcBaseNode(ArriveHeap(heap, Head(agenda)), Head(agenda),
                                ArriveNode(heap, Head(agenda))))
    /\ UNCHANGED <<valVars, intVars, parseVars, fileMap, astMap, nProps, propDefs>>

ProcessDtcChildNode ==
    /\ Folding({"child"})
    /\ Leave(processDtcBaseNode(ArriveHeap(heap, Head(agenda)), Head(agenda),
                                ArriveNode(heap, Head(agenda))))
    /\ UNCHANGED <<valVars, intVars, parseVars, fileMap, astMap, nProps, propDefs>>

ProcessDtcRefNode ==
    /\ Folding({"ref"})
    /\ Leave(processDtcBaseNode(ArriveHeap(heap, Head(agenda)), Head(agenda),
                                ArriveNode(heap, Head(agenda))))
    /\ UNCHANGED <<valVars, intVars, parseVars, fileMap, astMap, nProps, propDefs>>

ProcessDtcProperty ==
    /\ Folding({"prop"})
    /\ LET f == Head(agenda)
           n == ArriveNode(heap, f)
           e == astMap[f.uri][f.el]
       IN /\ Leave(processDtcProperty(ArriveHeap(heap, f), f, n, nProps + 1))
          /\ nProps' = IF e.name # NoString THEN nProps + 1 ELSE nProps
          /\ propDefs' = IF e.name # NoString
                         THEN Put(propDefs, <<n, e.name>>,
                                  Append(Get(propDefs, <<n, e.name>>), <<f.uri, f.el>>))
                         ELSE propDefs
    /\ UNCHANGED <<valVars, intVars, parseVars, fileMap, astMap>>

ProcessDeleteNode ==
    /\ Folding({"delnode"})
    /\ LET f == Head(agenda)
       IN Leave(processDeleteNode(ArriveHeap(heap, f), f, ArriveNode(heap, f)))
    /\ UNCHANGED <<valVars, intVars, parseVars, fileMap, astMap, nProps, propDefs>>

ProcessDeleteProperty ==
    /\ Folding({"delprop"})
    /\ LET f == Head(agenda)
           n == ArriveNode(heap, f)
           e == astMap[f.uri][f.el]
       IN /\ Leave(processDeleteProperty(ArriveHeap(heap, f), f, n))
          /\ propDefs' = IF e.name # NoString THEN Put(propDefs, <<n, e.name>>, <<>>)
                         ELSE propDefs
    /\ UNCHANGED <<valVars, intVars, parseVars, fileMap, astMap, nProps>>

ReportLabelIssues ==
    /\ pc = "fold"
    /\ agenda = <<>>
    /\ pc' = "done"
    /\ issues' = issues \o reportLabelIssues(heap)
    /\ UNCHANGED <<valVars, intVars, parseVars, fileMap, astMap, heap, agenda, nProps, firstTree, propDefs>>

Next ==
    \/ Process
    \/ ProcessDtcRootNode
    \/ ProcessDtcChildNode
    \/ ProcessDtcRefNode
    \/ ProcessDtcProperty
    \/ ProcessDeleteNode
    \/ ProcessDeleteProperty
    \/ ReportLabelIssues

Spec == Init /\ [][Next]_vars


InitNames == InitWith(Files(TopNames, InnerNames, MaxElems), OneFile)
SpecNames == InitNames /\ [][Next]_vars

InitLabels == InitWith(Files(TopLabels, InnerLabels, MaxElems), OneFile)
SpecLabels == InitLabels /\ [][Next]_vars

\* ContextAware.issues: rootNode.issues (the issues of the properties in the
\* tree), then _issues
RECURSIVE NodeIssues(_, _)
NodeIssues(h, n) ==
    FlatMap(PropertyIssues, h[n].properties)
    \o FlatMap(LAMBDA c : NodeIssues(h, c), h[n].nodes)

ContextIssues == NodeIssues(heap, RootNode) \o issues

-----------------------------------------------------------------------------
(* dtsTypes/types.ts: PropertyNodeType, the binding of a property name to  *)
(* its expected types, and its validate                                    *)

\* enum PropetyType
PropetyType == {"EMPTY", "U32", "U64", "STRING", "PROP_ENCODED_ARRAY",
                "STRINGLIST", "BYTESTRING", "UNKNOWN"}

\* The entries of PropertyValues.values: a PropertyValue wraps one of the
\* value classes in its field `value`; an entry that could not be parsed is null.
\* `value` is the field of that name of the wrapped object (the text of a
\* string with its quotes, the name a reference refers to), `cells` the
\* length of ArrayValues.values.
NoField == <<"undefined">>
StringValue(s) == [kind |-> "StringValue", value |-> s, cells |-> 0]
ArrayValues(n) == [kind |-> "ArrayValues", value |-> NoField, cells |-> n]
LabelRef(s) == [kind |-> "LabelRef", value |-> s, cells |-> 0]
NodePathRef(s) == [kind |-> "NodePathRef", value |-> NoField, cells |-> 0]
ByteStringValue == [kind |-> "ByteStringValue", value |-> NoField, cells |-> 0]
NullValue == [kind |-> "null", value |-> NoField, cells |-> 0]

DoubleQuote == "\""
SingleQuote == "'"
Quoted(s) == <<DoubleQuote>> \o s \o <<DoubleQuote>>

\* A Property as validate sees it: its name and property.ast.values, which is
\* null (None) for `name;` and the list of value entries otherwise
PropertyOf(name, values) == [name |-> name, values |-> values]

\* The AST elements an issue of validate is reported on
PropertyAst(pr) == [part |-> "property", name |-> pr.name, k |-> 0]
ValuesAst(pr) == [part |-> "values", name |-> pr.name, k |-> 0]
ValueAst(pr, k) == [part |-> "value", name |-> pr.name, k |-> k]

\* x?.values[k]?.value ?? property.ast
ValueAstOr(pr, k) ==
    IF pr.values.some /\ k <= Len(pr.values.val) /\ pr.values.val[k].kind # "null"
    THEN ValueAst(pr, k) ELSE PropertyAst(pr)

\* property.ast.values ?? property.ast
ValuesAstOr(pr) == IF pr.values.some THEN ValuesAst(pr) ELSE PropertyAst(pr)

propertyValueToPropetyType(value) ==
    CASE value.kind = "null" -> "UNKNOWN"
      [] value.kind = "StringValue" -> "STRING"
      [] value.kind = "ArrayValues" ->
            IF value.cells = 1 THEN "U32"
            ELSE IF value.cells = 2 THEN "U64" ELSE "PROP_ENCODED_ARRAY"
      [] value.kind \in {"LabelRef", "NodePathRef"} -> "U32"
      [] OTHER -> "BYTESTRING"

propertyValuesToPropetyType(pr) ==
    IF pr.values.some
    THEN [k \in 1..Len(pr.values.val) |-> propertyValueToPropetyType(pr.values.val[k])]
    ELSE <<"EMPTY">>

\* A PropertyNodeType.  name is a string or a RegExp; the RegExps of the
\* catalogue are suffix patterns (/-names$/), kept as the suffix.  type is the
\* list of slots, each the list of its types.  additionalTypeCheck is absent
\* or a function, given here by the issues it returns.
NameString(s) == [regexp |-> FALSE, text |-> s]
NameRegExp(s) == [regexp |-> TRUE, text |-> s]
NoCheck == [present |-> FALSE, issues |-> <<>>]
CheckReturning(is) == [present |-> TRUE, issues |-> is]

PropertyNodeType(name, type, required, def, values, additionalTypeCheck, list) ==
    [name |-> name, type |-> type, required |-> required, def |-> def,
     values |-> values, additionalTypeCheck |-> additionalTypeCheck, list |-> list]

\* this.values(property), for a values argument that is not a function
BindingValues(bd) ==
    IF bd.def # NoString /\ bd.def \notin Range(bd.values)
    THEN <<bd.def>> \o bd.values ELSE bd.values

EndsWith(name, suffix) ==
    /\ Len(suffix) <= Len(name)
    /\ SubSeq(name, Len(name) - Len(suffix) + 1, Len(name)) = suffix

getNameMatch(bd, name) ==
    IF bd.name.regexp THEN EndsWith(name, bd.name.text) ELSE bd.name.text = name

\* What a call came to: the issues it returned, or that it threw, and how
\* often additionalTypeCheck was called
Returned(is, calls) == [issues |-> is, threw |-> FALSE, additional |-> calls]
Thrown(calls) == [issues |-> <<>>, threw |-> TRUE, additional |-> calls]

\* checkType: typeIsValid
typeIsValid(expected, type) ==
    \/ type \in Range(expected)
    \/ "STRINGLIST" \in Range(expected) /\ type \in {"STRING", "STRINGLIST"}
    \/ "PROP_ENCODED_ARRAY" \in Range(expected) /\ type \in {"U32", "U64"}

\* checkType: the switch over the expected types; BYTESTRING and UNKNOWN have no case
ExpectedIssue(tt) ==
    CASE tt = "EMPTY" -> <<"EXPECTED_EMPTY">>
      [] tt = "STRING" -> <<"EXPECTED_STRING">>
      [] tt = "STRINGLIST" -> <<"EXPECTED_STRINGLIST">>
      [] tt = "U32" -> <<"EXPECTED_U32">>
      [] tt = "U64" -> <<"EXPECTED_U64">>
      [] tt = "PROP_ENCODED_ARRAY" -> <<"EXPECTED_PROP_ENCODED_ARRAY">>
      [] OTHER -> <<>>

ExpectedIssues(expected) == FlatMap(ExpectedIssue, expected)

\* An issue of the validator: genIssue with a list of issue kinds
TypeIssue(kinds, ast, templateStrings) ==
    [issues |-> kinds, astElement |-> ast, severity |-> "Error",
     linkedTo |-> <<>>, tags |-> <<>>, templateStrings |-> templateStrings]

\* checkType(expected, type, ast): the issues it pushes
checkType(bd, pr, expected, type, ast) ==
    IF ~typeIsValid(expected, type) /\ ExpectedIssues(expected) # <<>>
    THEN <<TypeIssue(ExpectedIssues(expected), ast, <<pr.name>>)>>
    ELSE <<>>

\* propTypes.some((t) => checkType(expected, t, values[0]?.value)): checkType
\* returns nothing, so every value type is visited
CheckEach(bd, pr, expected) ==
    FlatMap(LAMBDA t : checkType(bd, pr, expected, t, ValueAstOr(pr, 1)),
            propertyValuesToPropetyType(pr))

\* The branch of a binding with more than one slot
CompositeIssue(bd, pr, k) ==
    IF propertyValuesToPropetyType(pr)[k] \notin Range(bd.type[1])
    THEN <<TypeIssue(<<"EXPECTED_STRINGLIST">>,
                     IF pr.values.some /\ pr.values.val[k].kind # "null"
                     THEN ValueAst(pr, k) ELSE PropertyAst(pr), <<>>)>>
    ELSE <<>>

CompositeIssues(bd, pr) ==
    IF ~bd.list /\ Len(bd.type) # Len(propertyValuesToPropetyType(pr))
    THEN <<TypeIssue(<<"EXPECTED_COMPOSITE_LENGTH">>, ValuesAstOr(pr),
                     <<pr.name, Len(bd.type)>>)>>
    ELSE FlatMap(LAMBDA k : CompositeIssue(bd, pr, k),
                 [k \in 1..Len(propertyValuesToPropetyType(pr)) |-> k])

\* The branch of a binding with one slot, up to `we have the right type`
SingleIssues(bd, pr) ==
    IF "STRINGLIST" \in Range(bd.type[1]) THEN CheckEach(bd, pr, <<"STRINGLIST">>)
    ELSE IF bd.list THEN CheckEach(bd, pr, bd.type[1])
    ELSE IF Len(propertyValuesToPropetyType(pr)) > 1
            /\ \E tt \in Range(bd.type[1]) : tt # "EMPTY"
    THEN <<TypeIssue(<<"EXPECTED_ONE">>, ValuesAstOr(pr), <<pr.name>>)>>
    ELSE IF Len(propertyValuesToPropetyType(pr)) = 1
    THEN checkType(bd, pr, bd.type[1], propertyValuesToPropetyType(pr)[1],
                   ValueAstOr(pr, 1))
    ELSE <<>>

\* `'v1' or 'v2'`, the template string of EXPECTED_ENUM
RECURSIVE JoinOr(_)
JoinOr(vs) ==
    IF vs = <<>> THEN <<>>
    ELSE <<SingleQuote>> \o Head(vs) \o <<SingleQuote>>
         \o (IF Len(vs) = 1 THEN <<>> ELSE <<" or ">> \o JoinOr(Tail(vs)))

\* property.ast.values?.values[0]?.value
HasCurrentValue(pr) ==
    pr.values.some /\ pr.values.val # <<>> /\ pr.values.val[1].kind # "null"

\* currentValue.value.match(new RegExp(`^["']${v}["']$`))
MatchesEnum(value, v) ==
    \E o \in {DoubleQuote, SingleQuote}, c \in {DoubleQuote, SingleQuote} :
        value = <<o>> \o v \o <<c>>

\* The check against this.values: reading `.value` of an undefined
\* currentValue, or calling `.match` on an undefined `.value`, raises a TypeError
EnumRaises(pr) ==
    \/ ~HasCurrentValue(pr)
    \/ pr.values.val[1].value = NoField

EnumIssues(bd, pr) ==
    IF \E k \in 1..Len(BindingValues(bd)) :
           MatchesEnum(pr.values.val[1].value, BindingValues(bd)[k])
    THEN <<>>
    ELSE <<TypeIssue(<<"EXPECTED_ENUM">>, ValueAstOr(pr, 1),
                     <<JoinOr(BindingValues(bd))>>)>>

ChecksEnum(bd) == BindingValues(bd) # <<>> /\ "STRING" \in Range(bd.type[1])

\* this.additionalTypeCheck?.(property) ?? []
AdditionalIssues(bd) == IF bd.additionalTypeCheck.present
                        THEN bd.additionalTypeCheck.issues ELSE <<>>
AdditionalCalls(bd) == IF bd.additionalTypeCheck.present THEN 1 ELSE 0

\* The block `if (issues.length === 0)` of the single-slot branch
RightType(bd, pr) ==
    IF ~ChecksEnum(bd) THEN Returned(AdditionalIssues(bd), AdditionalCalls(bd))
    ELSE IF EnumRaises(pr) THEN Thrown(AdditionalCalls(bd))
    ELSE Returned(AdditionalIssues(bd) \o EnumIssues(bd, pr), AdditionalCalls(bd))

\* validateProperty with a property
validatePresent(bd, pr) ==
    IF bd.required = "ommited"
    THEN Returned(<<TypeIssue(<<"OMITTED">>, PropertyAst(pr), <<pr.name>>)>>, 0)
    ELSE IF Len(bd.type) > 1 THEN Returned(CompositeIssues(bd, pr), 0)
    ELSE IF SingleIssues(bd, pr) # <<>> THEN Returned(SingleIssues(bd, pr), 0)
    ELSE RightType(bd, pr)

\* validateProperty without one: runtime.getOrderedNodeAst(node) gives the
\* definitions of the node, the first carries the issue
validateAbsent(bd, nd, propertyName) ==
    IF bd.required = "required"
    THEN Returned(<<[issues |-> <<"REQUIRED">>, astElement |-> AtOrZero(nd.ast, MinOrZero(DOMAIN nd.ast)),
                     severity |-> "Error", linkedTo |-> IF nd.ast = <<>> THEN <<>> ELSE Tail(nd.ast),
                     tags |-> <<>>, templateStrings |-> <<propertyName>>]>>, 0)
    ELSE Returned(<<>>, 0)

\* node.getProperty(name): the property of that name, if any
GetPropertyByName(nd, name) == FindIndex(LAMBDA pr : pr.name = name, nd.properties)

\* properties.flatMap(validateProperty): the results in order; a call that
\* throws ends the whole
RECURSIVE FlatValidate(_, _)
FlatValidate(bd, prs) ==
    IF prs = <<>> THEN Returned(<<>>, 0)
    ELSE IF validatePresent(bd, Head(prs)).threw
    THEN Thrown(validatePresent(bd, Head(prs)).additional)
    ELSE [issues |-> validatePresent(bd, Head(prs)).issues \o FlatValidate(bd, Tail(prs)).issues,
          threw |-> FlatValidate(bd, Tail(prs)).threw,
          additional |-> validatePresent(bd, Head(prs)).additional
                         + FlatValidate(bd, Tail(prs)).additional]

\* validate(runtime, node)
validate(bd, nd) ==
    IF ~bd.name.regexp
    THEN IF GetPropertyByName(nd, bd.name.text) = 0
         THEN validateAbsent(bd, nd, bd.name.text)
         ELSE validatePresent(bd, nd.properties[GetPropertyByName(nd, bd.name.text)])
    ELSE FlatValidate(bd, SelectSeq(nd.properties, LAMBDA pr : getNameMatch(bd, pr.name)))

-----------------------------------------------------------------------------
(* The bindings, nodes and properties validate is explored with *)

okay == <<"okay">>
disabled == <<"disabled">>
status == <<"status">>
clockNames == <<"clock", "-names">>
resetNames == <<"reset", "-names">>
namesSuffix == <<"-names">>

\* generateOrTypeObj(types): one slot
generateOrTypeObj(types) == <<types>>

TypeSpecs ==
    {generateOrTypeObj(<<t>>) : t \in PropetyType \ {"U64"}}
    \cup {generateOrTypeObj(<<"STRING", "EMPTY">>), generateOrTypeObj(<<"U32", "U64">>),
          <<<<"U32">>, <<"STRING">>>>, <<<<"STRING">>, <<"STRING">>>>}

BindingNames == {NameString(status), NameRegExp(namesSuffix)}
Requirements == {"required", "ommited", "optional"}
Enumerations == {<<>>, <<okay>>, <<disabled>>}
AnIssue == TypeIssue(<<"IGNORED">>, [part |-> "property", name |-> status, k |-> 0], <<>>)
AdditionalChecks == {NoCheck, CheckReturning(<<>>), CheckReturning(<<AnIssue>>)}

Bindings ==
    {PropertyNodeType(n, t, r, NoString, <<>>, NoCheck, FALSE) :
        n \in BindingNames, t \in TypeSpecs, r \in Requirements}
    \cup {PropertyNodeType(NameString(status), t, "optional", NoString, <<>>, c, i) :
        t \in TypeSpecs, c \in AdditionalChecks, i \in BOOLEAN}
    \cup {PropertyNodeType(NameString(status), t, "optional", d, e, c, FALSE) :
        t \in TypeSpecs, d \in {NoString, okay}, e \in Enumerations,
        c \in {NoCheck, CheckReturning(<<>>)}}

ValueAlphabet == {StringValue(Quoted(okay)), ArrayValues(1), ArrayValues(2),
                  ArrayValues(3), LabelRef(<<"l">>), ByteStringValue, NullValue}

\* The lists over S of 1 to n entries
SeqsUpTo(S, n) == UNION {[1..k -> S] : k \in 1..n}

ValueLists == {None} \cup {Some(vs) : vs \in SeqsUpTo(ValueAlphabet, MaxValues)}

\* A node as validate sees it: the AST of its definitions and its properties
NodeOf(ast, properties) == [ast |-> ast, properties |-> properties]

ValidatedNodes ==
    {NodeOf(<<"def1", "def2">>, <<>>), NodeOf(<<"def1">>, <<PropertyOf(resetNames, None)>>)}
    \cup {NodeOf(<<"def1">>, <<PropertyOf(n, vs)>>) :
            n \in {status, clockNames}, vs \in ValueLists}
    \cup {NodeOf(<<"def1">>, <<PropertyOf(clockNames, vs), PropertyOf(resetNames, None)>>) :
            vs \in ValueLists}

\* The context resolver at rest
ContextIdle ==
    /\ fileMap = <<>> /\ astMap = <<>>
    /\ heap = <<NewNodeRec(Slash, 0)>> /\ issues = <<>> /\ agenda = <<>> /\ pc = "idle"
    /\ nProps = 0 /\ firstTree = <<>> /\ propDefs = <<>>

InitValidate ==
    /\ ContextIdle
    /\ binding \in Bindings /\ vnode \in ValidatedNodes /\ verdict = Idle
    /\ intNode = Idle /\ walk = Idle
    /\ tokens = Idle /\ parse = Idle

\* binding.validate(runtime, node)
Validate ==
    /\ binding # Idle /\ verdict = Idle
    /\ verdict' = validate(binding, vnode)
    /\ UNCHANGED <<ctxVars, binding, vnode, intVars, parseVars>>

NextValidate == Validate

SpecValidate == InitValidate /\ [][NextValidate]_vars

-----------------------------------------------------------------------------
(* dtsTypes/standardTypes/interruptsExtended.ts: the additionalTypeCheck of *)
(* the binding `interrupts-extended`                                        *)

\* A node a cell can refer to, with its `#interrupt-cells` property: absent,
\* present with a number, or present without one
TargetNode(name, present, numeric, value) ==
    [name |-> name, present |-> present, numeric |-> numeric, value |-> value]

\* A cell of an array value: the node it refers to when read as a phandle, if any
CellTo(target) == Some(target)
PlainCell == None

\* resolvePhandleNode(value, root)
resolvePhandleNode(cell) == cell

\* getInterruptInfo(node): cellsProperty and value
getInterruptInfo(nd) ==
    [node |-> nd.name, cellsProperty |-> nd.present,
     value |-> IF nd.present /\ nd.numeric THEN Some(nd.value) ELSE None]

\* An array value `<c1 c2 ...>` of a property
CellArray(cells) == [kind |-> "ArrayValues", cells |-> cells]
StringEntry == [kind |-> "StringValue", cells |-> <<>>]

\* flatNumberValues(property.ast.values): the cells of all values in order,
\* undefined (None) when there are no values or one of them is no array
flatNumberValues(values) ==
    IF ~values.some \/ \E k \in 1..Len(values.val) : values.val[k].kind # "ArrayValues"
    THEN None
    ELSE Some(FlatMap(LAMBDA v : [k \in 1..Len(v.cells) |-> v.cells[k]], values.val))

\* The AST elements the issues are reported on
ExtendedAst == [part |-> "property", name |-> <<"interrupts-extended">>, k |-> 0]
InterruptsAst == [part |-> "property", name |-> <<"interrupts">>, k |-> 0]
InterruptParentAst == [part |-> "property", name |-> <<"interrupt-parent">>, k |-> 0]
CellsAst(name) == [part |-> "property", name |-> <<"#interrupt-cells">>, k |-> name]
\* values[i] of the flattened list (i counts from 0)
FlatValueAst(i) == [part |-> "cell", name |-> <<"interrupts-extended">>, k |-> i]

IgnoredText == "is ignored when 'interrupts-extended' is used"

\* Lines 39-69: the warnings about `interrupts` and `interrupt-parent`
coexistenceIssues(nd) ==
    (IF nd.interrupts
     THEN <<GenIssue("IGNORED", InterruptsAst, "Warning", <<ExtendedAst>>,
                     <<<<"interrupts">>, IgnoredText>>)>>
     ELSE <<>>)
    \o (IF nd.interruptParent
        THEN <<GenIssue("IGNORED", InterruptParentAst, "Warning", <<ExtendedAst>>,
                        <<<<"interrupt-parent">>, IgnoredText>>)>>
        ELSE <<>>)

\* The check in progress: where it is, the issues pushed, the iterations made,
\* and, once it returned, what it returned
WalkAt(at, i, is, steps, result) ==
    [pc |-> at, i |-> i, issues |-> is, steps |-> steps, result |-> result]

Flat(nd) == flatNumberValues(nd.values)

\* i += interruptCells.value + 1
nextIndexNoPhandle(i, value) == i + value
nextIndex(i, value) == i + value + 1

\* One pass of the loop body at index i (from 0) over the values vs
loopBody(w, vs) ==
    IF ~resolvePhandleNode(vs[w.i + 1]).some
    THEN WalkAt("returned", w.i, w.issues, w.steps + 1,
                w.issues \o <<GenIssue("INTERRUPTS_PARENT_NODE_NOT_FOUND",
                                       FlatValueAst(w.i), "Error", <<>>, <<>>)>>)
    ELSE IF ~getInterruptInfo(vs[w.i + 1].val).cellsProperty
    THEN WalkAt("returned", w.i, w.issues, w.steps + 1,
                w.issues \o <<GenIssue("PROPERTY_REQUIRES_OTHER_PROPERTY_IN_NODE",
                                       ExtendedAst, "Error", <<vs[w.i + 1].val.name>>,
                                       <<<<"interrupts-extended">>, <<"#interrupt-cells">>,
                                         vs[w.i + 1].val.name>>)>>)
    ELSE IF ~getInterruptInfo(vs[w.i + 1].val).value.some
    THEN WalkAt("returned", w.i, w.issues, w.steps + 1, w.issues)
    ELSE IF getInterruptInfo(vs[w.i + 1].val).value.val > Len(vs) - w.i - 1
    THEN WalkAt("returned", w.i, w.issues, w.steps + 1,
                w.issues \o <<GenIssue("INTERRUPTS_VALUE_CELL_MISS_MATCH",
                                       FlatValueAst(w.i), "Error",
                                       <<CellsAst(vs[w.i + 1].val.name)>>,
                                       <<<<"interrupts-extended">>,
                                         getInterruptInfo(vs[w.i + 1].val).value.val>>)>>)
    ELSE WalkAt("loop", nextIndex(w.i, getInterruptInfo(vs[w.i + 1].val).value.val),
                w.issues, w.steps + 1, <<>>)

\* Lines 35-76: up to the loop
WalkStart ==
    /\ intNode # Idle /\ walk.pc = "start"
    /\ walk' = IF ~Flat(intNode).some \/ Flat(intNode).val = <<>>
               THEN WalkAt("returned", 0, coexistenceIssues(intNode), 0, <<>>)
               ELSE WalkAt("loop", 0, coexistenceIssues(intNode), 0, <<>>)
    /\ UNCHANGED <<ctxVars, valVars, intNode, parseVars>>

\* Lines 78-134: one iteration of `while (i < values.length)`
WalkStep ==
    /\ intNode # Idle /\ walk.pc = "loop"
    /\ walk.i < Len(Flat(intNode).val)
    /\ walk.steps < MaxSteps
    /\ walk' = loopBody(walk, Flat(intNode).val)
    /\ UNCHANGED <<ctxVars, valVars, intNode, parseVars>>

\* Line 136: the loop is left, `return issues`
WalkEnd ==
    /\ intNode # Idle /\ walk.pc = "loop"
    /\ ~(walk.i < Len(Flat(intNode).val))
    /\ walk' = WalkAt("returned", walk.i, walk.issues, walk.steps, walk.issues)
    /\ UNCHANGED <<ctxVars, valVars, intNode, parseVars>>

\* The nodes that cells refer to
pic == TargetNode(<<"pic">>, TRUE, TRUE, 2)
gic == TargetNode(<<"gic">>, TRUE, TRUE, 1)
nvic == TargetNode(<<"nvic">>, TRUE, TRUE, 0)
bus == TargetNode(<<"bus">>, FALSE, FALSE, 0)
odd == TargetNode(<<"odd">>, TRUE, FALSE, 0)

Cells == {PlainCell, CellTo(pic), CellTo(gic), CellTo(nvic), CellTo(bus), CellTo(odd)}

\* property.ast.values of `interrupts-extended`
ExtendedValues ==
    {None, Some(<<StringEntry>>), Some(<<CellArray(<<PlainCell>>), StringEntry>>)}
    \cup {Some(<<CellArray(cs)>>) : cs \in UNION {[1..k -> Cells] : k \in 0..MaxCells}}
    \cup {Some(<<CellArray(<<c>>), CellArray(<<d>>)>>) : c, d \in {CellTo(gic), PlainCell}}

\* The node that carries `interrupts-extended`
ExtendedNode(interrupts, interruptParent, values) ==
    [interrupts |-> interrupts, interruptParent |-> interruptParent, values |-> values]

InitWalk ==
    /\ ContextIdle
    /\ binding = Idle /\ vnode = Idle /\ verdict = Idle
    /\ intNode \in {ExtendedNode(i, j, vs) : i, j \in BOOLEAN, vs \in ExtendedValues}
    /\ walk = WalkAt("start", 0, <<>>, 0, <<>>)
    /\ tokens = Idle /\ parse = Idle

NextWalk == WalkStart \/ WalkStep \/ WalkEnd

SpecWalk == InitWalk /\ [][NextWalk]_vars

\* A node whose `#interrupt-cells = <(0 - 1)>;` is an integer expression
neg == TargetNode(<<"neg">>, TRUE, TRUE, 0 - 1)

CellsAny == {PlainCell, CellTo(gic), CellTo(nvic), CellTo(neg)}

ExtendedValuesAny ==
    {None} \cup {Some(<<CellArray(cs)>>) : cs \in UNION {[1..k -> CellsAny] : k \in 0..MaxCells}}

\* The walk over values whose parents have any `#interrupt-cells` number;
\* the iterations explored end at MaxSteps
InitWalkAny ==
    /\ ContextIdle
    /\ binding = Idle /\ vnode = Idle /\ verdict = Idle
    /\ intNode \in {ExtendedNode(i, FALSE, vs) : i \in BOOLEAN, vs \in ExtendedValuesAny}
    /\ walk = WalkAt("start", 0, <<>>, 0, <<>>)
    /\ tokens = Idle /\ parse = Idle

SpecWalkAny == InitWalkAny /\ [][NextWalk]_vars

-----------------------------------------------------------------------------
(* The parser, as far as the end of a declaration goes (spec 4.3), on one   *)
(* line of tokens; the expectations of test/parser.test.ts                 *)

\* A token as the lexer yields it: its kind, the blanks before it and its
\* length.  `owed` is no part of the token: it marks the last token of a
\* declaration that the writer of the file left without `;`.
Tok(kind, gap, len, owed) == [kind |-> kind, gap |-> gap, len |-> len, owed |-> owed]

\* Token.pos.col: the column of token k of the line
RECURSIVE Col(_, _)
Col(ts, k) == IF k = 1 THEN ts[1].gap
              ELSE Col(ts, k - 1) + ts[k - 1].len + ts[k].gap

\* Token.pos
TokenPos(ts, k) == [line |-> 0, col |-> Col(ts, k), len |-> ts[k].len]

\* The source text of a declaration.  A declaration is a root node `/{...}`,
\* a child node `node {...}`, a property `prop1` or a property with a value
\* `prop1=<10>`; `term` tells whether `;` follows it.
Decl(kind, term, body) == [kind |-> kind, term |-> term, body |-> body]

Semicolon(term) == IF term THEN <<Tok(";", 0, 1, FALSE)>> ELSE <<>>

RenderProperty(d) ==
    IF d.kind = "prop"
    THEN <<Tok("name", 1, 4, FALSE), Tok("digit", 0, 1, ~d.term)>> \o Semicolon(d.term)
    ELSE <<Tok("name", 1, 4, FALSE), Tok("digit", 0, 1, FALSE), Tok("=", 0, 1, FALSE),
           Tok("<", 0, 1, FALSE), Tok("number", 0, 2, FALSE), Tok(">", 0, 1, ~d.term)>>
         \o Semicolon(d.term)

RenderChild(d) ==
    IF d.kind = "node"
    THEN <<Tok("name", 1, 4, FALSE), Tok("{", 1, 1, FALSE)>>
         \o FlatMap(RenderProperty, d.body)
         \o <<Tok("}", 0, 1, ~d.term)>> \o Semicolon(d.term)
    ELSE RenderProperty(d)

RenderRoot(d) ==
    <<Tok("/", 0, 1, FALSE), Tok("{", 0, 1, FALSE)>>
    \o FlatMap(RenderChild, d.body)
    \o <<Tok("}", 0, 1, ~d.term)>> \o Semicolon(d.term)

\* An issue of the parser: the AST element of the declaration is kept by the
\* position of its last token
SyntaxIssue(issue, ts, k) ==
    [issues |-> <<issue>>, astElement |-> [lastToken |-> [pos |-> TokenPos(ts, k)]]]

\* The parser at a token: position, open node blocks, issues
ParseAt(at, pos, open, is) == [pc |-> at, pos |-> pos, open |-> open, issues |-> is]

Peek(ts, k) == IF k <= Len(ts) THEN ts[k].kind ELSE "EOF"

\* The token a declaration that ends before position pos ended with
prevToken(pos) == pos - 1

\* A parser that takes `;` where it stands and lets its absence pass
endStatementSilent(ts, ps, pos, open) ==
    ParseAt("parsing", IF Peek(ts, pos) = ";" THEN pos + 1 ELSE pos, open, ps.issues)

\* The end of a declaration whose last token is before pos: `;` is consumed,
\* its absence is an END_STATMENT issue on the declaration
endStatement(ts, ps, pos, open) ==
    IF Peek(ts, pos) = ";"
    THEN ParseAt("parsing", pos + 1, open, ps.issues)
    ELSE ParseAt("parsing", pos, open,
                 Append(ps.issues, SyntaxIssue("END_STATMENT", ts, prevToken(pos))))

\* The position after a property name at pos: the name and the digits that
\* touch it
AfterName(ts, pos) ==
    IF Peek(ts, pos + 1) = "digit" /\ ts[pos + 1].gap = 0 THEN pos + 2 ELSE pos + 1

\* The position after an optional `= <number>` at pos
AfterValue(ts, pos) == IF Peek(ts, pos) = "=" THEN pos + 4 ELSE pos

ParseRootNode ==
    /\ tokens # Idle /\ parse.pc = "parsing" /\ parse.open = <<>>
    /\ Peek(tokens, parse.pos) = "/" /\ Peek(tokens, parse.pos + 1) = "{"
    /\ parse' = ParseAt("parsing", parse.pos + 2, <<"root">>, parse.issues)
    /\ UNCHANGED <<ctxVars, valVars, intVars, tokens>>

ParseChildNode ==
    /\ tokens # Idle /\ parse.pc = "parsing" /\ parse.open # <<>>
    /\ Peek(tokens, parse.pos) = "name" /\ Peek(tokens, parse.pos + 1) = "{"
    /\ parse' = ParseAt("parsing", parse.pos + 2, <<"node">> \o parse.open, parse.issues)
    /\ UNCHANGED <<ctxVars, valVars, intVars, tokens>>

ParseProperty ==
    /\ tokens # Idle /\ parse.pc = "parsing" /\ parse.open # <<>>
    /\ Peek(tokens, parse.pos) = "name" /\ Peek(tokens, parse.pos + 1) # "{"
    /\ parse' = endStatement(tokens, parse,
                             AfterValue(tokens, AfterName(tokens, parse.pos)), parse.open)
    /\ UNCHANGED <<ctxVars, valVars, intVars, tokens>>

ParseNodeEnd ==
    /\ tokens # Idle /\ parse.pc = "parsing" /\ parse.open # <<>>
    /\ Peek(tokens, parse.pos) = "}"
    /\ parse' = endStatement(tokens, parse, parse.pos + 1, Tail(parse.open))
    /\ UNCHANGED <<ctxVars, valVars, intVars, tokens>>

ParseEnd ==
    /\ tokens # Idle /\ parse.pc = "parsing"
    /\ Peek(tokens, parse.pos) = "EOF"
    /\ parse' = ParseAt("done", parse.pos, parse.open, parse.issues)
    /\ UNCHANGED <<ctxVars, valVars, intVars, tokens>>

\* The declarations explored
Properties == {Decl(k, t, <<>>) : k \in {"prop", "propv"}, t \in BOOLEAN}
ChildNodes == {Decl("node", t, body) : t \in BOOLEAN,
                                       body \in {<<>>} \cup {<<d>> : d \in Properties}}
RootNodes == {Decl("root", t, body) : t \in BOOLEAN,
              body \in UNION {[1..k -> Properties \cup ChildNodes] : k \in 0..MaxDecls}}

\* The inputs of describe("Missing semicolon") and of `Empty Root node`
TestMissingSemicolon ==
    << \* "/{}"
       <<Tok("/", 0, 1, FALSE), Tok("{", 0, 1, FALSE), Tok("}", 0, 1, TRUE)>>,
       \* "/{ node {}};"
       <<Tok("/", 0, 1, FALSE), Tok("{", 0, 1, FALSE), Tok("name", 1, 4, FALSE),
         Tok("{", 1, 1, FALSE), Tok("}", 0, 1, TRUE), Tok("}", 0, 1, FALSE),
         Tok(";", 0, 1, FALSE)>>,
       \* "/{ node {}}"
       <<Tok("/", 0, 1, FALSE), Tok("{", 0, 1, FALSE), Tok("name", 1, 4, FALSE),
         Tok("{", 1, 1, FALSE), Tok("}", 0, 1, TRUE), Tok("}", 0, 1, TRUE)>>,
       \* "/{ prop1 };"
       <<Tok("/", 0, 1, FALSE), Tok("{", 0, 1, FALSE), Tok("name", 1, 4, FALSE),
         Tok("digit", 0, 1, TRUE), Tok("}", 1, 1, FALSE), Tok(";", 0, 1, FALSE)>>,
       \* "/{ prop1=<10> };"
       <<Tok("/", 0, 1, FALSE), Tok("{", 0, 1, FALSE), Tok("name", 1, 4, FALSE),
         Tok("digit", 0, 1, FALSE), Tok("=", 0, 1, FALSE), Tok("<", 0, 1, FALSE),
         Tok("number", 0, 2, FALSE), Tok(">", 0, 1, TRUE), Tok("}", 1, 1, FALSE),
         Tok(";", 0, 1, FALSE)>>,
       \* "/{ node {prop1=<10>} };"
       <<Tok("/", 0, 1, FALSE), Tok("{", 0, 1, FALSE), Tok("name", 1, 4, FALSE),
         Tok("{", 1, 1, FALSE), Tok("name", 0, 4, FALSE), Tok("digit", 0, 1, FALSE),
         Tok("=", 0, 1, FALSE), Tok("<", 0, 1, FALSE), Tok("number", 0, 2, FALSE),
         Tok(">", 0, 1, TRUE), Tok("}", 0, 1, TRUE), Tok("}", 1, 1, FALSE),
         Tok(";", 0, 1, FALSE)>>,
       \* "/{};"
       <<Tok("/", 0, 1, FALSE), Tok("{", 0, 1, FALSE), Tok("}", 0, 1, FALSE),
         Tok(";", 0, 1, FALSE)>> >>

\* The columns of astElement.lastToken the tests expect, issue by issue
TestExpectedColumns == <<<<2>>, <<9>>, <<9, 10>>, <<7>>, <<12>>, <<18, 19>>, <<>>>>

InitParse ==
    /\ ContextIdle
    /\ binding = Idle /\ vnode = Idle /\ verdict = Idle
    /\ intNode = Idle /\ walk = Idle
    /\ tokens \in {RenderRoot(d) : d \in RootNodes} \cup Range(TestMissingSemicolon)
    /\ parse = ParseAt("parsing", 1, <<>>, <<>>)

NextParse == ParseRootNode \/ ParseChildNode \/ ParseProperty \/ ParseNodeEnd \/ ParseEnd

SpecParse == InitParse /\ [][NextParse]_vars

-----------------------------------------------------------------------------
(* Ref nodes that resolve and ref nodes that do not *)

\* `& { ... }` (no label reference), `&m { ... }` (m is no label of any
\* file) and `&l { ... }` (l labels node a of the file folded first)
TopRefs == {DtcRefNode(<<>>, NoString), DtcRefNode(<<>>, m), DtcRefNode(<<>>, l)}
InnerRefs == {DtcChildNode(<<>>, a, NoString), DtcChildNode(<<>>, b, NoString),
              DtcProperty(<<>>, p, <<>>), DtcProperty(<<>>, q, <<>>),
              DeleteNodeName(a, NoString), DeleteProperty(p)}

InitRefs == InitWith(Files(TopRefs, InnerRefs, MaxElems), {<<"g", "f">>})
SpecRefs == InitRefs /\ [][Next]_vars

-----------------------------------------------------------------------------
(* Properties *)

\* The nodes of the tree: `n` and everything below it
RECURSIVE Descendants(_, _)
Descendants(h, n) ==
    {n} \cup UNION {Descendants(h, c) : c \in Range(h[n].nodes)}

\* What two runtime trees are compared by: per node path, the property names
\* and the label texts
TreeShape(h) ==
    {[path |-> NodePath(h, n),
      properties |-> {PropertyName(pr) : pr \in Range(h[n].properties)},
      labels |-> {LabelText(ll) : ll \in Range(NodeLabels(h, n))}]
        : n \in Descendants(h, RootNode)}

(* C1: the runtime tree built from [F, F] has the same node paths, the same
   property names per node and the same labels per node as the one built
   from [F]. *)
C1_IdempotentMerge ==
    (pc = "done" /\ fileMap = <<"f", "f">>) => TreeShape(heap) = TreeShape(firstTree)

\* The fields of an issue that the override claim speaks of
OverrideFields(issue) ==
    [issues |-> issue.issues, severity |-> issue.severity, tags |-> issue.tags,
     astElement |-> issue.astElement, linkedTo |-> issue.linkedTo]

DuplicateHint(replaced, by) ==
    [issues |-> <<"DUPLICATE_PROPERTY_NAME">>, severity |-> "Hint",
     tags |-> <<"Unnecessary">>, astElement |-> Self(replaced),
     linkedTo |-> <<Self(by)>>]

(* C2: a property of a runtime node whose name was defined n+1 times since
   the last delete reports exactly n DUPLICATE_PROPERTY_NAME issues, oldest
   replaced definition first, each a Hint tagged Unnecessary on the replaced
   definition and linked to the definition that replaced it; the property
   itself is the last definition. *)
C2_PropertyOverride ==
    \A n \in 1..Len(heap) : \A i \in 1..Len(heap[n].properties) :
        LET pr == heap[n].properties[i]
            defs == Get(propDefs, <<n, PropertyName(pr)>>)
        IN /\ defs # <<>>
           /\ pr.ast = defs[Len(defs)]
           /\ MapSeq(OverrideFields, PropertyIssues(pr))
                = [k \in 1..(Len(defs) - 1) |-> DuplicateHint(defs[k], defs[k + 1])]

\* A property that replaced two earlier definitions in a row
C2_Witness ==
    \E n \in 1..Len(heap) : \E i \in 1..Len(heap[n].properties) :
        Len(PropertyIssues(heap[n].properties[i])) >= 2

\* The properties of node n, none for a node that does not exist yet
PropertiesOf(h, n) == IF n \in 1..Len(h) THEN h[n].properties ELSE <<>>

(* C4: processing `/delete-property/ name` (name not empty) against a node
   without that property adds one PROPERTY_DOES_NOT_EXIST issue on the
   property name and leaves the node's properties as they were; against a
   node with it, it adds no issue and leaves the node's other properties, in
   order, without the named one. *)
C4_DeleteProperty ==
    [][(Folding({"delprop"}) /\ astMap[Head(agenda).uri][Head(agenda).el].name # NoString)
        => LET f == Head(agenda)
               n == ArriveNode(heap, f)
               name == astMap[f.uri][f.el].name
               before == PropertiesOf(heap, n)
           IN IF \A i \in 1..Len(before) : PropertyName(before[i]) # name
              THEN /\ issues' = Append(issues,
                            GenError("PROPERTY_DOES_NOT_EXIST",
                                     AstRef(f.uri, f.el, "propertyName", 0)))
                   /\ heap'[n].properties = before
              ELSE /\ issues' = issues
                   /\ heap'[n].properties =
                        SelectSeq(before, LAMBDA pr : PropertyName(pr) # name)
                   /\ \A i \in 1..Len(heap'[n].properties) :
                        PropertyName(heap'[n].properties[i]) # name]_vars

\* A delete was processed without any PROPERTY_DOES_NOT_EXIST issue: the
\* property was there and is gone
C4_Witness ==
    /\ \E k \in DOMAIN propDefs :
            /\ propDefs[k] = <<>>
            /\ \A i \in 1..Len(heap[k[1]].properties) :
                    PropertyName(heap[k[1]].properties[i]) # k[2]
    /\ nProps > 0
    /\ \A i \in 1..Len(issues) : issues[i].issues # <<"PROPERTY_DOES_NOT_EXIST">>

\* The issues of kind `issue` raised on the AST object `ref`
IssuesOn(iss, issue, ref) ==
    SelectSeq(iss, LAMBDA x : x.issues = <<issue>> /\ x.astElement = ref)

\* The URI of the call at hand is folded once, so every issue on its
\* elements comes from this fold
FoldedOnce(uri) == Cardinality({i \in 1..Len(fileMap) : fileMap[i] = uri}) = 1

(* C3: processing `/delete-node/ name` inside a node block leaves a
   NODE_DOES_NOT_EXIST issue on the statement if and only if the runtime
   parent has no child called name at that moment; when the child exists it
   is detached. *)
C3_DeleteNodeByName ==
    [][(/\ Folding({"delnode"})
        /\ astMap[Head(agenda).uri][Head(agenda).el].ref = NoString
        /\ astMap[Head(agenda).uri][Head(agenda).el].name # NoString
        /\ astMap[Head(agenda).uri][Head(agenda).el].parent # 0
        /\ FoldedOnce(Head(agenda).uri))
        => LET f == Head(agenda)
               h == ArriveHeap(heap, f)
               n == ArriveNode(heap, f)
               name == NodeNameToString(astMap[f.uri][f.el])
               reported == IssuesOn(issues', "NODE_DOES_NOT_EXIST",
                                    AstRef(f.uri, f.el, "nodeNameOrRef", 0)) # <<>>
           IN IF HasNode(h, n, name)
              THEN ~reported /\ GetNode(h, n, name) \notin Range(heap'[n].nodes)
              ELSE reported]_vars

(* C5: processing a ref node `&L { ... }` either finds a runtime node for L,
   records the ref node in that node's referancesBy and processes its
   contents against that node, without an issue of its own; or it adds
   exactly one UNABLE_TO_RESOLVE_CHILD_NODE issue on the ref node.  A
   resolved path always leads to a node. *)
C5_RefNodeMerge ==
    [][(Folding({"ref"}) /\ astMap[Head(agenda).uri][Head(agenda).el].ref # NoString)
        => LET f == Head(agenda)
               resolvedPath == resolvePath(heap, <<RefPathName(astMap[f.uri][f.el])>>)
               own == checkNodeUniqueNames(f.uri, f.el)
               unable == GenError("UNABLE_TO_RESOLVE_CHILD_NODE", Self(<<f.uri, f.el>>))
           IN IF resolvedPath.tag = "path"
              THEN LET n == GetChild(heap, resolvedPath.path)
                   IN /\ n # 0
                      /\ n \in Descendants(heap, RootNode)
                      /\ heap'[n].referancesBy =
                            Append(heap[n].referancesBy, <<f.uri, f.el>>)
                      /\ issues' = issues \o own
                      /\ \A k \in 1..Len(ChildrenOf(astMap[f.uri], f.el)) :
                            agenda'[k].parent = n
              ELSE /\ issues' = issues \o own \o <<unable>>
                   /\ heap' = heap
                   /\ pc' = pc]_vars

\* One ref node was merged into a node of the tree and another was reported
C5_Witness ==
    /\ \E n \in Descendants(heap, RootNode) : heap[n].referancesBy # <<>>
    /\ \E i \in 1..Len(issues) :
            /\ issues[i].issues = <<"UNABLE_TO_RESOLVE_CHILD_NODE">>
            /\ Elem(<<issues[i].astElement.uri, issues[i].astElement.el>>).kind = "ref"

\* The children of the elements of file `uri` that are DtcChildNodes with a name
NamedChildNodes(uri) ==
    {c \in 1..Len(astMap[uri]) :
        /\ astMap[uri][c].kind = "child"
        /\ astMap[uri][c].name # NoString
        /\ astMap[uri][c].parent # 0}

\* Child node c has the node name of an earlier child node of its block
RepeatsSibling(uri, c) ==
    \E d \in NamedChildNodes(uri) :
        /\ d < c
        /\ astMap[uri][d].parent = astMap[uri][c].parent
        /\ NodeNameToString(astMap[uri][d]) = NodeNameToString(astMap[uri][c])

(* C6: when a file has been folded, a child node carries a
   DUPLICATE_NODE_NAME issue on its name if and only if an earlier child
   node of the same block has the same node name, unit address included. *)
C6_SiblingNames ==
    pc = "done" =>
        \A c \in NamedChildNodes("f") :
            RepeatsSibling("f", c)
                <=> IssuesOn(issues, "DUPLICATE_NODE_NAME", AstRef("f", c, "name", 0)) # <<>>

\* The label assignments of text t in the tree, with their owners
AssignmentsOf(t) ==
    SelectSeq(AllDescendantsLabelsMapped(heap, RootNode),
              LAMBDA it : LabelText(it.label) = t)

\* The LABEL_ALREADY_IN_USE issues for label text t
LabelIssuesOf(t) ==
    SelectSeq(issues, LAMBDA x : x.issues = <<"LABEL_ALREADY_IN_USE">>
                                  /\ x.templateStrings = <<t>>)

(* C7: after construction, label text t has a LABEL_ALREADY_IN_USE issue if
   and only if t is assigned more than once in the tree by owners that are
   not all the same Node or Property; there is at most one such issue and it
   is on the last assignment. *)
C7_LabelConflicts ==
    pc = "done" =>
        \A t \in {l, m} :
            LET items == AssignmentsOf(t)
                conflict == \E i, j \in 1..Len(items) : items[i].owner # items[j].owner
            IN /\ conflict <=> LabelIssuesOf(t) # <<>>
               /\ Len(LabelIssuesOf(t)) <= 1
               /\ LabelIssuesOf(t) # <<>> =>
                    LabelIssuesOf(t)[1].astElement = items[Len(items)].label

(* C8: the linkedTo of a LABEL_ALREADY_IN_USE issue for a label with more
   than one owner lists exactly the earlier assignments of the label whose
   owner is not the owner of the reported assignment. *)
C8_LabelLinks ==
    pc = "done" =>
        \A t \in {l, m} :
            LET items == AssignmentsOf(t)
                earlier == SubSeq(items, 1, Len(items) - 1)
            IN (/\ LabelIssuesOf(t) # <<>>
                /\ \E i, j \in 1..Len(items) : items[i].owner # items[j].owner) =>
                LabelIssuesOf(t)[1].linkedTo =
                    MapSeq(LAMBDA it : it.label,
                           SelectSeq(earlier,
                                     LAMBDA it : it.owner # items[Len(items)].owner))

\* The labelled DtcChildNode definitions, as their positions in the tree's
\* label order, whose path leads to a runtime node that carries label t
ChildNodeCandidates(t) ==
    LET all == AllDescendantsLabels(heap, RootNode)
    IN {i \in 1..Len(all) :
            /\ Elem(<<all[i].uri, all[i].el>>).kind = "child"
            /\ all[i].part = "label"
            /\ ElemPath(astMap[all[i].uri], all[i].el).some
            /\ \E n \in Descendants(heap, RootNode) :
                    /\ NodePath(heap, n) = ElemPath(astMap[all[i].uri], all[i].el).val
                    /\ \E ll \in Range(NodeLabels(heap, n)) : LabelText(ll) = t}

\* The labelled ref nodes in the tree that refer to label t
RefNodeCandidates(t) ==
    LET all == AllDescendantsLabels(heap, RootNode)
    IN {i \in 1..Len(all) :
            /\ Elem(<<all[i].uri, all[i].el>>).kind = "ref"
            /\ all[i].part = "label"
            /\ Elem(<<all[i].uri, all[i].el>>).ref = t}

\* The paths resolvePath is asked about
RestPaths == {<<>>, <<a>>, <<a, b>>}
PlainPaths == {<<Slash>>, <<Slash, a>>, <<a>>, <<Slash, b, a>>}

(* C9: in every tree the fold reaches, resolvePath returns a path that does
   not start with `&` unchanged; for `&t` followed by rest it returns the
   path of the first labelled child node, in the tree's label order, whose
   runtime node carries t, followed by rest; when there is no such child
   node there is no ref node to fall back on either and it returns
   undefined. *)
C9_ResolvePath ==
    /\ \A path \in PlainPaths : resolvePath(heap, path) = Resolved(path)
    /\ \A t \in {l, m} : \A rest \in RestPaths :
        LET all == AllDescendantsLabels(heap, RootNode)
            first == MinOrZero(ChildNodeCandidates(t))
        IN IF first # 0
           THEN resolvePath(heap, <<(<<Amp>> \o t)>> \o rest)
                    = Resolved(ElemPath(astMap[all[first].uri], all[first].el).val \o rest)
           ELSE /\ RefNodeCandidates(t) = {}
                /\ resolvePath(heap, <<(<<Amp>> \o t)>> \o rest) = Unresolved

\* Label m reaches node /a only through the ref node `m: &l { }`: `&m`
\* followed by a resolves to the path of the child node labelled l, followed
\* by a, in a tree that has a node /b as well
C9_Witness ==
    /\ resolvePath(heap, <<(<<Amp>> \o m), a>>) = Resolved(<<Slash, a, a>>)
    /\ \E n \in Descendants(heap, RootNode) : NodePath(heap, n) = <<Slash, b>>

\* The elements of file `uri` in the subtree of element el
SubtreeSize(uri, el) ==
    Cardinality({j \in 1..Len(astMap[uri]) : el \in Ancestors(astMap[uri], j)})

\* The processChild calls still to be made for the pending calls `calls`
RECURSIVE Pending(_)
Pending(calls) ==
    IF calls = <<>> THEN 0
    ELSE SubtreeSize(calls[1].uri, calls[1].el) + Pending(Tail(calls))

RECURSIVE TotalSize(_)
TotalSize(uris) ==
    IF uris = <<>> THEN 0
    ELSE (IF uris[1] \in DOMAIN astMap THEN Len(astMap[uris[1]]) ELSE 0)
         + TotalSize(Tail(uris))

\* The steps the constructor has left at most
StepsLeft ==
    CASE pc = "start" -> 2 + TotalSize(fileMap)
      [] pc = "fold" -> 1 + Pending(agenda)
      [] OTHER -> 0

(* C10: construction is total: no step of the constructor raises, be it a
   TypeError on a path without segments or a resolvePath recursion that does
   not return, and every step brings the constructor nearer to its end. *)
C10_Total == [][pc' # "threw" /\ StepsLeft' < StepsLeft]_vars

\* Construction ended with a labelled ref node merged into the tree, the case
\* in which resolvePath has a ref node to recurse through
C10_Witness ==
    /\ pc = "done"
    /\ \E t \in {l, m} : RefNodeCandidates(t) # {}
    /\ \E i \in 1..Len(issues) : issues[i].issues = <<"UNABLE_TO_RESOLVE_CHILD_NODE">>

-----------------------------------------------------------------------------
(* PropertyNodeType.validate *)

Validated == verdict # Idle /\ binding # Idle

\* The node has no property the binding's name matches
NoMatchingProperty ==
    \A k \in 1..Len(vnode.properties) : ~getNameMatch(binding, vnode.properties[k].name)

IsRequiredIssue(i) ==
    /\ i.issues = <<"REQUIRED">>
    /\ i.severity = "Error"
    /\ i.templateStrings # <<>>

(* C11: when validate has returned for a node that has no property matching
   the binding's name (a literal name or a pattern): a binding that is
   required gave exactly one REQUIRED issue of severity Error that carries a
   property name, and a binding that is not required gave no issue. *)
C11_MissingRequired ==
    (Validated /\ NoMatchingProperty) =>
        /\ ~verdict.threw
        /\ IF binding.required = "required"
           THEN Len(verdict.issues) = 1 /\ IsRequiredIssue(verdict.issues[1])
           ELSE verdict.issues = <<>>

\* The part of C11 that the code keeps: bindings with a literal name
C11_LiteralName ==
    (Validated /\ NoMatchingProperty /\ ~binding.name.regexp) =>
        IF binding.required = "required"
        THEN /\ Len(verdict.issues) = 1 /\ IsRequiredIssue(verdict.issues[1])
             /\ verdict.issues[1].templateStrings = <<binding.name.text>>
        ELSE verdict.issues = <<>>

\* The claim's rule: the type is a member of the slot, or the slot contains
\* STRINGLIST and the type is STRING or STRINGLIST, or the slot contains
\* PROP_ENCODED_ARRAY and the type is U32 or U64
Assignable(slot, type) ==
    \/ type \in Range(slot)
    \/ "STRINGLIST" \in Range(slot) /\ type \in {"STRING", "STRINGLIST"}
    \/ "PROP_ENCODED_ARRAY" \in Range(slot) /\ type \in {"U32", "U64"}

\* The properties of the node that validate hands to validateProperty
ValidatedProperties ==
    {vnode.properties[k] : k \in {i \in 1..Len(vnode.properties) :
                                      getNameMatch(binding, vnode.properties[i].name)}}

(* C12: for every slot of the binding validated and each of the eight value
   types, checkType adds an issue if and only if the type is not assignable
   to the slot. *)
C12_Assignability ==
    Validated =>
        \A pr \in ValidatedProperties, k \in 1..Len(binding.type), type \in PropetyType :
            (checkType(binding, pr, binding.type[k], type, PropertyAst(pr)) # <<>>)
                <=> ~Assignable(binding.type[k], type)

\* The part of C12 that the code keeps: slots with a type other than
\* BYTESTRING and UNKNOWN
C12_ReportableSlots ==
    Validated =>
        \A pr \in ValidatedProperties, k \in 1..Len(binding.type), type \in PropetyType :
            Range(binding.type[k]) \ {"BYTESTRING", "UNKNOWN"} # {} =>
                ((checkType(binding, pr, binding.type[k], type, PropertyAst(pr)) # <<>>)
                    <=> ~Assignable(binding.type[k], type))

\* The same seen from the result: a property with one string value under a
\* binding of the one slot [BYTESTRING] gets no issue
C12_ByteStringSlot ==
    (/\ Validated
     /\ binding.type = <<<<"BYTESTRING">>>> /\ binding.required # "ommited"
     /\ ~binding.additionalTypeCheck.present
     /\ \E pr \in ValidatedProperties :
            propertyValuesToPropetyType(pr) = <<"STRING">>)
        => verdict.issues = <<>>

\* A binding with more than one slot and list false, and a present property
\* that is not forbidden
CompositeCase(pr) ==
    /\ Validated /\ Len(binding.type) > 1 /\ ~binding.list
    /\ binding.required # "ommited"
    /\ ValidatedProperties = {pr}

IssuesAt(is, ast) == {k \in 1..Len(is) : is[k].astElement = ast}

\* property.ast.values.values[k], or the property where that entry is null
EntryAst(pr, k) ==
    IF pr.values.val[k].kind # "null" THEN ValueAst(pr, k) ELSE PropertyAst(pr)

(* C13: for a binding of more than one slot with list false and a present
   property: if the number of values differs from the number of slots the
   result is exactly one EXPECTED_COMPOSITE_LENGTH issue; if they are equal,
   an issue is reported on the value at position k exactly when that value's
   type is not assignable to slot k. *)
C13_CompositeDispatch ==
    \A pr \in ValidatedProperties :
        CompositeCase(pr) =>
            IF Len(propertyValuesToPropetyType(pr)) # Len(binding.type)
            THEN /\ Len(verdict.issues) = 1
                 /\ verdict.issues[1].issues = <<"EXPECTED_COMPOSITE_LENGTH">>
            ELSE \A k \in 1..Len(binding.type) :
                    pr.values.val[k].kind # "null" =>
                        ((IssuesAt(verdict.issues, ValueAst(pr, k)) # {})
                            <=> ~Assignable(binding.type[k],
                                            propertyValuesToPropetyType(pr)[k]))

\* The part of C13 that the code keeps: the length check
C13_CompositeLength ==
    \A pr \in ValidatedProperties :
        (CompositeCase(pr) /\ Len(propertyValuesToPropetyType(pr)) # Len(binding.type)) =>
            /\ Len(verdict.issues) = 1
            /\ verdict.issues[1].issues = <<"EXPECTED_COMPOSITE_LENGTH">>
            /\ verdict.issues[1].templateStrings = <<pr.name, Len(binding.type)>>

\* The issues of the type checks of validateProperty, for one slot or more
TypeCheckIssues(pr) ==
    IF Len(binding.type) > 1 THEN CompositeIssues(binding, pr) ELSE SingleIssues(binding, pr)

\* A binding with an additionalTypeCheck and a present property that is not forbidden
AdditionalCase(pr) ==
    /\ Validated /\ binding.additionalTypeCheck.present
    /\ binding.required # "ommited"
    /\ ValidatedProperties = {pr}

IsSubSeq(s, t) == \E k \in 0..(Len(t) - Len(s)) : SubSeq(t, k + 1, k + Len(s)) = s

(* C14: for a present property that is not forbidden, additionalTypeCheck is
   called, and the issues it returns are part of the result, if and only if
   the type checks produced no issue; this for bindings of one slot and for
   bindings of more than one slot. *)
C14_AdditionalOrdering ==
    \A pr \in ValidatedProperties :
        AdditionalCase(pr) =>
            /\ verdict.additional = (IF TypeCheckIssues(pr) = <<>> THEN 1 ELSE 0)
            /\ (TypeCheckIssues(pr) = <<>> /\ ~verdict.threw) =>
                    IsSubSeq(binding.additionalTypeCheck.issues, verdict.issues)
            /\ TypeCheckIssues(pr) # <<>> => verdict.issues = TypeCheckIssues(pr)

\* The part of C14 that the code keeps: bindings of one slot
C14_SingleSlot ==
    \A pr \in ValidatedProperties :
        (AdditionalCase(pr) /\ Len(binding.type) = 1) =>
            /\ verdict.additional = (IF TypeCheckIssues(pr) = <<>> THEN 1 ELSE 0)
            /\ (TypeCheckIssues(pr) = <<>> /\ ~verdict.threw) =>
                    IsSubSeq(binding.additionalTypeCheck.issues, verdict.issues)
            /\ TypeCheckIssues(pr) # <<>> => verdict.issues = TypeCheckIssues(pr)

(* C15: validate returns a list of issues and does not throw, whatever the
   binding, the node and its properties: also for a binding with enumerated
   values whose slot holds STRING and another type when the property has no
   value or its first value is no string, and for a value list with a null
   entry. *)
C15_ValidatorTotal == Validated => ~verdict.threw

\* The part of C15 that the code keeps: bindings whose values are not
\* checked against an enumeration, null entries included
C15_WithoutEnum ==
    (Validated /\ ~(Len(binding.type) = 1 /\ ChecksEnum(binding))) => ~verdict.threw

-----------------------------------------------------------------------------
(* The additional check of interrupts-extended *)

WalkReturned == intNode # Idle /\ walk.pc = "returned"

\* The Errors of a list of issues, each as its kind and the AST element it is on
ErrorsOf(is) ==
    MapSeq(LAMBDA i : <<i.issues[1], i.astElement>>,
           SelectSeq(is, LAMBDA i : i.severity = "Error"))

\* The flattened values, empty when there are none
FlatOrEmpty(nd) == IF Flat(nd).some THEN Flat(nd).val ELSE <<>>

\* Every node referred to that has `#interrupt-cells` has a number there
CellCountsKnown(vs) ==
    \A k \in 1..Len(vs) : (vs[k].some /\ vs[k].val.present) => vs[k].val.numeric

\* The tuples as C16 reads them, from index i (from 0) on: the Error of the
\* first wrong tuple, or none
RECURSIVE TupleErrors(_, _)
TupleErrors(vs, i) ==
    IF i >= Len(vs) THEN <<>>
    ELSE IF ~vs[i + 1].some
    THEN <<<<"INTERRUPTS_PARENT_NODE_NOT_FOUND", FlatValueAst(i)>>>>
    ELSE IF ~vs[i + 1].val.present
    THEN <<<<"PROPERTY_REQUIRES_OTHER_PROPERTY_IN_NODE", ExtendedAst>>>>
    ELSE IF Len(vs) - (i + 1) < vs[i + 1].val.value
    THEN <<<<"INTERRUPTS_VALUE_CELL_MISS_MATCH", FlatValueAst(i)>>>>
    ELSE TupleErrors(vs, i + 1 + vs[i + 1].val.value)

(* C16: when the additional check of interrupts-extended has returned, for
   referred nodes whose #interrupt-cells is a number: read as tuples from
   index 0, one phandle followed by as many cells as the #interrupt-cells of
   the node it resolves to, the result holds exactly one Error for the first
   wrong tuple (parent not found, on the value; parent without
   #interrupt-cells; fewer cells left than required, on the phandle value)
   and no Error when every tuple is complete. *)
C16_TupleWalk ==
    (WalkReturned /\ CellCountsKnown(FlatOrEmpty(intNode))) =>
        ErrorsOf(walk.result) = TupleErrors(FlatOrEmpty(intNode), 0)

\* A walk that passed a complete tuple and then met a truncated one
C16_Witness ==
    /\ WalkReturned /\ CellCountsKnown(FlatOrEmpty(intNode))
    /\ walk.steps = 2 /\ walk.i = 2
    /\ \E k \in 1..Len(walk.result) :
           walk.result[k].issues = <<"INTERRUPTS_VALUE_CELL_MISS_MATCH">>

\* Complete tuples only: the walk reaches the end and reports no Error
C16_WitnessComplete ==
    /\ WalkReturned /\ walk.steps = 2 /\ walk.i = Len(FlatOrEmpty(intNode))
    /\ ErrorsOf(walk.result) = <<>>

\* An IGNORED warning on the AST element `ast`, linked to the
\* interrupts-extended property
HasIgnored(is, ast) ==
    \E k \in 1..Len(is) :
        /\ is[k].issues = <<"IGNORED">> /\ is[k].severity = "Warning"
        /\ is[k].astElement = ast /\ is[k].linkedTo = <<ExtendedAst>>

(* C17: when the additional check of interrupts-extended has returned for a
   node that also has `interrupts` (or `interrupt-parent`), the issues
   returned hold an IGNORED warning on that property, linked to the
   interrupts-extended property, whatever the values of interrupts-extended
   are. *)
C17_Coexistence ==
    WalkReturned =>
        /\ intNode.interrupts => HasIgnored(walk.result, InterruptsAst)
        /\ intNode.interruptParent => HasIgnored(walk.result, InterruptParentAst)

\* The part of C17 that the code keeps: a value list that flattens to at
\* least one number, also when the walk ends in an Error
C17_WithValues ==
    (WalkReturned /\ FlatOrEmpty(intNode) # <<>>) =>
        /\ intNode.interrupts => HasIgnored(walk.result, InterruptsAst)
        /\ intNode.interruptParent => HasIgnored(walk.result, InterruptParentAst)

-----------------------------------------------------------------------------
(* The parser *)

Parsed == tokens # Idle /\ parse.pc = "done"

\* The positions of the last tokens of the declarations left without `;`,
\* in the order the declarations end
OwedPositions(ts) ==
    MapSeq(LAMBDA k : TokenPos(ts, k),
           SelectSeq([k \in 1..Len(ts) |-> k], LAMBDA k : ts[k].owed))

\* astElement.lastToken.pos of the END_STATMENT issues, in order
EndStatementPositions(is) ==
    MapSeq(LAMBDA i : i.astElement.lastToken.pos,
           SelectSeq(is, LAMBDA i : i.issues = <<"END_STATMENT">>))

(* C18: when a file is parsed, each declaration (root node, child node,
   property with or without value) that is not followed by `;` has exactly
   one END_STATMENT issue whose astElement.lastToken is the last token of
   the declaration, the issues are in the order the declarations end, and
   there is no other END_STATMENT issue: none at all when every declaration
   is terminated. *)
C18_MissingSemicolon ==
    Parsed => EndStatementPositions(parse.issues) = OwedPositions(tokens)

\* The inputs of the tests give the columns the tests expect
C18_TestExpectations ==
    Parsed =>
        \A k \in 1..Len(TestMissingSemicolon) :
            tokens = TestMissingSemicolon[k] =>
                MapSeq(LAMBDA pos : pos.col, EndStatementPositions(parse.issues))
                    = TestExpectedColumns[k]

\* "/{ node {prop1=<10>} };" is parsed: the property and the child node are
\* reported, in this order
C18_Witness ==
    /\ Parsed /\ tokens = TestMissingSemicolon[6]
    /\ Len(parse.issues) = 2
    /\ parse.issues[1].astElement.lastToken.pos = [line |-> 0, col |-> 18, len |-> 1]
    /\ parse.issues[2].astElement.lastToken.pos = [line |-> 0, col |-> 19, len |-> 1]

-----------------------------------------------------------------------------
(* ContextAware.process *)

\* A URI of fileMap has no cached parse (no entry of astMap; an entry
\* without rootDocument is the same to process)
MissingParse == \E i \in 1..Len(fileMap) : fileMap[i] \notin DOMAIN astMap

\* rootNode has no children and no properties
EmptyRoot(h) == h[RootNode].nodes = <<>> /\ h[RootNode].properties = <<>>

\* The calls still to make are for file `pass` of fileMap or a later one,
\* file by file in the order of fileMap
InFileOrder(ag, pass) ==
    /\ \A k \in 1..Len(ag) : ag[k].pass >= pass /\ ag[k].uri = fileMap[ag[k].pass]
    /\ \A j, k \in 1..Len(ag) : j < k => ag[j].pass <= ag[k].pass

(* C19: at every step of the construction, if a URI of fileMap has no cached
   parse then no file is folded: rootNode keeps no children and no
   properties and issues stays empty; and if every URI has one, the files
   are folded in the order of fileMap, each completely before the next: a
   step for file k leaves only calls for file k and later files. *)
C19_AllOrNothing ==
    [][/\ MissingParse => (EmptyRoot(heap') /\ issues' = <<>> /\ agenda' = <<>>)
       /\ (pc = "start" /\ ~MissingParse) => InFileOrder(agenda', 1)
       /\ (pc = "fold" /\ agenda # <<>>) => InFileOrder(agenda', Head(agenda).pass)]_vars

\* The construction ended for [f, h], where f has a parse with declarations
\* and h has none, and nothing was folded
C19_Witness ==
    /\ pc = "done" /\ fileMap = <<"f", "h">>
    /\ ChildrenOf(astMap["f"], 0) # <<>>
    /\ EmptyRoot(heap) /\ issues = <<>>

\* The second file of [g, f] is being folded into what the first left
C19_WitnessOrder ==
    /\ pc = "fold" /\ fileMap = <<"g", "f">>
    /\ agenda # <<>> /\ Head(agenda).pass = 2 /\ ~EmptyRoot(heap)

-----------------------------------------------------------------------------
(* Ref nodes without a runtime node *)

\* The node at the top of the parent chain of node n
RECURSIVE TopOf(_, _)
TopOf(h, n) == IF h[n].parent = 0 THEN n ELSE TopOf(h, h[n].parent)

\* The call is made with a node outside the tree of rootNode: the
\* `new Node('')` of a ref node, or a node below one
Detached(h, f) == f.parent = 0 \/ TopOf(h, f.parent) # RootNode

\* The ref node of call f has no label reference, or its label does not
\* resolve, or the path it resolves to has no runtime node
RefWithoutNode(h, f) ==
    /\ astMap[f.uri][f.el].kind = "ref"
    /\ \/ astMap[f.uri][f.el].ref = NoString
       \/ resolvePath(h, <<RefPathName(astMap[f.uri][f.el])>>).tag # "path"
       \/ GetChild(h, resolvePath(h, <<RefPathName(astMap[f.uri][f.el])>>).path) = 0

\* The nodes reachable from rootNode, each with its child nodes and properties
ReachableTree(h) ==
    {[node |-> n, name |-> h[n].name, nodes |-> h[n].nodes,
      properties |-> h[n].properties] : n \in Descendants(h, RootNode)}

(* C20: a step that processes a ref node without a runtime node, or a
   property, child node, /delete-node/ by name or /delete-property/ inside
   such a ref node, works on a detached node: the nodes reachable from
   rootNode, their child nodes and their properties are the same after the
   step as before, and the calls it makes for children are on detached
   nodes again. *)
C20_UnresolvedRef ==
    [][(/\ pc = "fold" /\ agenda # <<>>
        /\ \/ RefWithoutNode(heap, Head(agenda))
           \/ Detached(heap, Head(agenda)))
       => /\ pc' = "fold"
          /\ ReachableTree(heap') = ReachableTree(heap)
          /\ \A k \in 1..(Len(agenda') - Len(agenda) + 1) :
                Detached(heap', agenda'[k])]_vars

\* The file folded second is `&m { /delete-property/ p; ... }` or alike, all
\* of it is processed, and rootNode still has its property p and its node a
C20_Witness ==
    /\ pc = "fold" /\ agenda = <<>>
    /\ \E i \in DOMAIN astMap["f"] :
          /\ astMap["f"][i].kind = "delprop"
          /\ astMap["f"][astMap["f"][i].parent].kind = "ref"
          /\ astMap["f"][astMap["f"][i].parent].ref = m
    /\ HasProperty(heap, RootNode, p)
    /\ Len(heap) > 2

-----------------------------------------------------------------------------
(* The loop of the additional check of interrupts-extended *)

\* An iteration of the loop is made
Iterates == intNode # Idle /\ walk.pc = "loop" /\ walk'.steps = walk.steps + 1

\* Every `#interrupt-cells` number of the nodes referred to is 0 or more
CellCountsNatural(vs) ==
    \A k \in 1..Len(vs) :
        (vs[k].some /\ vs[k].val.present /\ vs[k].val.numeric) => vs[k].val.value >= 0

(* C21: each iteration of the loop over the flattened values either returns
   or leaves the index i greater than it was, whatever the #interrupt-cells
   numbers of the nodes referred to are, so that no more iterations are made
   than there are values. *)
C21_WalkTerminates ==
    [][Iterates =>
        /\ walk'.pc = "returned" \/ walk'.i > walk.i
        /\ walk'.steps <= Len(FlatOrEmpty(intNode))]_vars

\* The part of C21 that the code keeps: #interrupt-cells numbers of 0 or more
C21_NaturalCounts ==
    [][(Iterates /\ CellCountsNatural(FlatOrEmpty(intNode))) =>
        /\ walk'.pc = "returned" \/ walk'.i > walk.i
        /\ walk'.steps <= Len(FlatOrEmpty(intNode))]_vars

\* A walk that went on past a parent with #interrupt-cells 0
C21_WitnessZero ==
    /\ intNode # Idle /\ walk.pc = "loop" /\ walk.steps = 1 /\ walk.i = 1
    /\ FlatOrEmpty(intNode)[1] = CellTo(nvic)

====
